---- MODULE Spec2Model ----
(***************************************************************************)
(* Verification model of the DMRC chatbot's transit graph and routing      *)
(* engine: routing.py (path finders), dmrc_routing.py (BFS + segmenter),   *)
(* dmrc_helpers.py (station name resolver), dmrc_graph.py and              *)
(* station_loader.py (graph builders), main.py (/route segment builder).   *)
(*                                                                         *)
(* Station names are modelled by the integers 1..NumStations+1, ordered as *)
(* the names sort as strings; a Python dict is a sequence of <<key, value>>*)
(* pairs in insertion order; a returned None is the record NoneRet.         *)
(***************************************************************************)
EXTENDS Integers, Sequences, FiniteSets, TLC

VARIABLES
    graph,      \* routing: the adjacency dict handed to the path finders
    call,       \* routing: the query that ran last (op, start, goal, max_length)
    ret,        \* routing: what that query returned
    run,        \* routing: the loop state of a search that is run step by step
    metroKeys,  \* resolver: the keys of METRO_GRAPH, in dict order
    vname,      \* resolver: the input validate_station ran on last
    vret,       \* resolver: what validate_station returned
    process,    \* builders: which entry point has been started ("none", "main", "app")
    stations,   \* main.py: STATION_LOADER.stations, name -> {coordinates}
    lines_index,    \* main.py: STATION_LOADER.lines_index, line -> station list
    loader_graph,   \* main.py: STATION_LOADER.graph
    METRO_DATA,     \* main.py: line code -> stations, after the startup sync
    route_response, \* main.py: what POST /route answered last
    query,          \* main.py: the RouteQuery that answer is for
    METRO_NETWORKS, \* app.py: dmrc_dataset.METRO_NETWORKS, line -> station list
    METRO_GRAPH,    \* app.py: dmrc_graph.METRO_GRAPH
    STATION_LINE_LOOKUP,    \* app.py: dmrc_graph.STATION_LINE_LOOKUP
    route_data,     \* app.py: what dmrc_routing.find_route (or a direct call
                    \* of format_route_details) returned last
    reachable,      \* builders: the last is_reachable query on the built graph
    row_lines,      \* main.py: whether a row of the stations CSV names a line
    loading,        \* main.py: how far a running STATION_LOADER.load() has come
    rebuild         \* builders: the build that was run once more, until its
                    \* caller has looked at what it left

routeVars == <<graph, call, ret, run>>

nameVars == <<metroKeys, vname, vret>>

mainVars ==
    <<stations, lines_index, loader_graph, METRO_DATA, route_response, query,
      row_lines, loading>>

appVars == <<METRO_NETWORKS, METRO_GRAPH, STATION_LINE_LOOKUP, route_data>>

metroVars == <<process, mainVars, appVars, reachable, rebuild>>

vars == <<routeVars, nameVars, metroVars>>

----------------------------------------------------------------------------
(* Bounds of the routing model *)

NumStations == 5
MaxEdges == 5
NumWeighted == 3
MaxWeight == 2

Stations == 1..NumStations
\* a station name that is the key of no graph ("Ghost Station")
Ghost == NumStations + 1
Names == Stations \cup {Ghost}

----------------------------------------------------------------------------
(* Generic helpers *)

Last(s) == s[Len(s)]

SeqToSet(s) == {s[i] : i \in 1..Len(s)}

Min(S) == CHOOSE x \in S : \A y \in S : x <= y

Abs(x) == IF x < 0 THEN -x ELSE x

RECURSIVE SetToSortedSeq(_)
SetToSortedSeq(S) ==
    IF S = {} THEN <<>>
    ELSE LET m == Min(S) IN <<m>> \o SetToSortedSeq(S \ {m})

RECURSIVE Flatten(_)
Flatten(ss) == IF ss = <<>> THEN <<>> ELSE Head(ss) \o Flatten(Tail(ss))

\* Python's list comparison: lexicographic, a proper prefix is smaller
RECURSIVE LexLess(_, _)
LexLess(p, q) ==
    IF q = <<>> THEN FALSE
    ELSE IF p = <<>> THEN TRUE
    ELSE IF Head(p) # Head(q) THEN Head(p) < Head(q)
    ELSE LexLess(Tail(p), Tail(q))

----------------------------------------------------------------------------
(* The graph abstraction: {station: {neighbor: weight}} *)

\* `node in graph`
InGraph(g, node) == node \in DOMAIN g

\* graph.get(node, {}) : the neighbour dict of node, in insertion order
GraphGet(g, node) == IF node \in DOMAIN g THEN g[node] ELSE <<>>

\* iteration over a neighbour dict yields its keys in insertion order
NeighborKeys(g, node) ==
    LET d == GraphGet(g, node) IN [i \in 1..Len(d) |-> d[i][1]]

\* the dict after lookups written as graph[name] on a defaultdict: a name
\* that is no key is inserted with an empty neighbour dict
GraphAfterIndexing(g, names) ==
    [a \in DOMAIN g \cup names |-> IF a \in DOMAIN g THEN g[a] ELSE <<>>]

\* the dict after `name in graph` and graph.get(name, {}) for the names a
\* query looks up: neither inserts a key, the dict is as it was
GraphAfterLookups(g, names) == g

HasEdge(g, a, b) == \E i \in 1..Len(GraphGet(g, a)) : GraphGet(g, a)[i][1] = b

\* graph[a][b], for an existing edge
Weight(g, a, b) ==
    LET d == GraphGet(g, a)
        i == CHOOSE j \in 1..Len(d) : d[j][1] = b
    IN d[i][2]

----------------------------------------------------------------------------
(* Return values of the routing queries, as one record shape *)

NoneRet ==
    [none |-> TRUE, dist |-> 0, path |-> <<>>, paths |-> <<>>, station |-> 0,
     flag |-> FALSE]

PathRet(p) ==
    [none |-> FALSE, dist |-> 0, path |-> p, paths |-> <<>>, station |-> 0,
     flag |-> FALSE]

DistPathRet(d, p) ==
    [none |-> FALSE, dist |-> d, path |-> p, paths |-> <<>>, station |-> 0,
     flag |-> FALSE]

PathsRet(ps) ==
    [none |-> FALSE, dist |-> 0, path |-> <<>>, paths |-> ps, station |-> 0,
     flag |-> FALSE]

\* a station name returned
StationRet(s) ==
    [none |-> FALSE, dist |-> 0, path |-> <<>>, paths |-> <<>>, station |-> s,
     flag |-> FALSE]

\* a bool returned
BoolRet(b) ==
    [none |-> FALSE, dist |-> 0, path |-> <<>>, paths |-> <<>>, station |-> 0,
     flag |-> b]

----------------------------------------------------------------------------
(* routing.bfs_shortest_path *)

\* a deque.append written as appendleft
QueueAppendLeft(queue, item) == <<item>> \o queue

\* queue.append(new_path)
QueueAppend(queue, item) == Append(queue, item)

\* the path written with the new station in front
NewPathPrepended(path, neighbor) == <<neighbor>> \o path

\* new_path = path + [neighbor]
NewPath(path, neighbor) == Append(path, neighbor)

\* a for loop that leaves out visited.add(neighbor)
RECURSIVE BfsForWithoutMark(_, _, _, _, _, _)
BfsForWithoutMark(goal, path, nbrs, i, visited, queue) ==
    IF i > Len(nbrs)
    THEN [found |-> <<>>, visited |-> visited, queue |-> queue]
    ELSE LET neighbor == nbrs[i]
             new_path == NewPath(path, neighbor)
         IN IF neighbor \in visited
            THEN BfsForWithoutMark(goal, path, nbrs, i + 1, visited, queue)
            ELSE IF neighbor = goal
            THEN [found |-> new_path, visited |-> visited, queue |-> queue]
            ELSE BfsForWithoutMark(goal, path, nbrs, i + 1, visited,
                                   QueueAppend(queue, new_path))

\* the for loop over the neighbours of path[-1], from the i-th neighbour on;
\* found = <<>> stands for "loop ended without returning"
RECURSIVE BfsFor(_, _, _, _, _, _)
BfsFor(goal, path, nbrs, i, visited, queue) ==
    IF i > Len(nbrs)
    THEN [found |-> <<>>, visited |-> visited, queue |-> queue]
    ELSE LET neighbor == nbrs[i]
             new_path == NewPath(path, neighbor)
         IN IF neighbor \in visited
            THEN BfsFor(goal, path, nbrs, i + 1, visited, queue)
            ELSE IF neighbor = goal
            THEN [found |-> new_path, visited |-> visited, queue |-> queue]
            ELSE BfsFor(goal, path, nbrs, i + 1, visited \cup {neighbor},
                        QueueAppend(queue, new_path))

\* the while loop: popleft, scan the neighbours
RECURSIVE BfsWhile(_, _, _, _)
BfsWhile(g, goal, visited, queue) ==
    IF queue = <<>> THEN NoneRet
    ELSE LET path == Head(queue)
             node == Last(path)
             r == BfsFor(goal, path, NeighborKeys(g, node), 1, visited, Tail(queue))
         IN IF r.found # <<>> THEN PathRet(r.found)
            ELSE BfsWhile(g, goal, r.visited, r.queue)

bfs_shortest_path(g, start, goal) ==
    IF start = goal THEN PathRet(<<start>>)
    ELSE IF ~InGraph(g, start) \/ ~InGraph(g, goal) THEN NoneRet
    ELSE BfsWhile(g, goal, {start}, <<<<start>>>>)

----------------------------------------------------------------------------
(* routing.dijkstra *)

\* the 1.0 of `weight if weight else 1.0`
DefaultWeight == 1

\* `weight if weight else 1.0`: a falsy weight (None, 0, 0.0) counts as 1.0
EdgeDistance(weight) == IF weight = 0 THEN DefaultWeight ELSE weight

\* tuple order of the heap entries (distance, node, path)
TupleLess(x, y) ==
    \/ x[1] < y[1]
    \/ x[1] = y[1] /\ x[2] < y[2]
    \/ x[1] = y[1] /\ x[2] = y[2] /\ LexLess(x[3], y[3])

\* heapq.heappop returns the least entry; entries are pairwise distinct
HeapMin(pq) == CHOOSE x \in pq : \A y \in pq \ {x} : TupleLess(x, y)

\* state of a run: the frontier, the finalized distances, and the result once
\* the function has returned
DijkstraStart(start) ==
    [pq |-> {<<0, start, <<start>>>>}, seen |-> <<>>, done |-> FALSE, ret |-> NoneRet]

\* one iteration of a while loop without the test
\* `if node in seen and seen[node] <= distance: continue`
DijkstraIterWithoutSkip(g, goal, st) ==
    IF st.pq = {} THEN [st EXCEPT !.done = TRUE, !.ret = NoneRet]
    ELSE LET top == HeapMin(st.pq)
             distance == top[1]
             node == top[2]
             path == top[3]
             rest == st.pq \ {top}
             seen2 == [n \in (DOMAIN st.seen) \cup {node} |->
                         IF n = node THEN distance ELSE st.seen[n]]
             d == GraphGet(g, node)
             pushed == {<<distance + EdgeDistance(d[i][2]), d[i][1],
                          Append(path, d[i][1])>> :
                        i \in {j \in 1..Len(d) :
                                \/ d[j][1] \notin DOMAIN seen2
                                \/ distance + EdgeDistance(d[j][2])
                                      < seen2[d[j][1]]}}
         IN IF node = goal
            THEN [pq |-> rest, seen |-> seen2, done |-> TRUE,
                  ret |-> DistPathRet(distance, path)]
            ELSE [pq |-> rest \cup pushed, seen |-> seen2,
                  done |-> FALSE, ret |-> NoneRet]

\* one iteration of the while loop
DijkstraIter(g, goal, st) ==
    IF st.pq = {} THEN [st EXCEPT !.done = TRUE, !.ret = NoneRet]
    ELSE LET top == HeapMin(st.pq)
             distance == top[1]
             node == top[2]
             path == top[3]
             rest == st.pq \ {top}
         IN IF node \in DOMAIN st.seen /\ st.seen[node] <= distance
            THEN [st EXCEPT !.pq = rest]
            ELSE LET seen2 == [n \in (DOMAIN st.seen) \cup {node} |->
                                 IF n = node THEN distance ELSE st.seen[n]]
                     d == GraphGet(g, node)
                     pushed == {<<distance + EdgeDistance(d[i][2]), d[i][1],
                                  Append(path, d[i][1])>> :
                                i \in {j \in 1..Len(d) :
                                        \/ d[j][1] \notin DOMAIN seen2
                                        \/ distance + EdgeDistance(d[j][2])
                                              < seen2[d[j][1]]}}
                 IN IF node = goal
                    THEN [pq |-> rest, seen |-> seen2, done |-> TRUE,
                          ret |-> DistPathRet(distance, path)]
                    ELSE [pq |-> rest \cup pushed, seen |-> seen2,
                          done |-> FALSE, ret |-> NoneRet]

RECURSIVE DijkstraWhile(_, _, _)
DijkstraWhile(g, goal, st) ==
    IF st.done THEN st.ret ELSE DijkstraWhile(g, goal, DijkstraIter(g, goal, st))

dijkstra(g, start, goal) ==
    IF start = goal THEN DistPathRet(0, <<start>>)
    ELSE IF ~InGraph(g, start) \/ ~InGraph(g, goal) THEN NoneRet
    ELSE DijkstraWhile(g, goal, DijkstraStart(start))

----------------------------------------------------------------------------
(* routing.get_all_paths_limited *)

\* default of the max_length parameter
DefaultMaxLength == 5

\* the nested dfs; visited.add / visited.remove around the recursive call is
\* the passing of visited \cup {neighbor} downwards
\* the search is cut one station early
TooLongEarly(path, max_length) == Len(path) >= max_length

\* if len(path) > max_length: return
TooLong(path, max_length) == Len(path) > max_length

RECURSIVE dfs(_, _, _, _, _, _)
dfs(g, goal, max_length, node, path, visited) ==
    IF TooLong(path, max_length) THEN <<>>
    ELSE IF node = goal THEN <<path>>
    ELSE LET nbrs == NeighborKeys(g, node)
         IN Flatten([i \in 1..Len(nbrs) |->
                IF nbrs[i] \notin visited
                THEN dfs(g, goal, max_length, nbrs[i], Append(path, nbrs[i]),
                         visited \cup {nbrs[i]})
                ELSE <<>>])

get_all_paths_limited(g, start, goal, max_length) ==
    IF ~InGraph(g, start) \/ ~InGraph(g, goal) THEN PathsRet(<<>>)
    ELSE PathsRet(dfs(g, goal, max_length, start, <<start>>, {start}))

----------------------------------------------------------------------------
(* routing.find_nearest_common_station, get_connected_component, is_reachable *)

\* the for loop over the neighbours of one popped node of one side; found is
\* <<n>> for "return n"
RECURSIVE SideFor(_, _, _, _, _)
SideFor(nbrs, i, mine, other, next_queue) ==
    IF i > Len(nbrs) THEN [found |-> <<>>, mine |-> mine, next |-> next_queue]
    ELSE IF nbrs[i] \in other
    THEN [found |-> <<nbrs[i]>>, mine |-> mine, next |-> next_queue]
    ELSE IF nbrs[i] \notin mine
    THEN SideFor(nbrs, i + 1, mine \cup {nbrs[i]}, other,
                 Append(next_queue, nbrs[i]))
    ELSE SideFor(nbrs, i + 1, mine, other, next_queue)

\* the inner while loop: one whole level of one side
RECURSIVE SideWhile(_, _, _, _, _)
SideWhile(g, queue, mine, other, next_queue) ==
    IF queue = <<>> THEN [found |-> <<>>, mine |-> mine, next |-> next_queue]
    ELSE LET r == SideFor(NeighborKeys(g, Head(queue)), 1, mine, other, next_queue)
         IN IF r.found # <<>> THEN r
            ELSE SideWhile(g, Tail(queue), r.mine, other, r.next)

\* an outer loop whose side b tests against the stations side a had visited
\* before its level of this round
RECURSIVE CommonWhileStaleSide(_, _, _, _, _)
CommonWhileStaleSide(g, visited_a, visited_b, queue_a, queue_b) ==
    IF queue_a = <<>> /\ queue_b = <<>> THEN NoneRet
    ELSE LET ra == SideWhile(g, queue_a, visited_a, visited_b, <<>>)
         IN IF ra.found # <<>> THEN StationRet(ra.found[1])
            ELSE LET rb == SideWhile(g, queue_b, visited_b, visited_a, <<>>)
                 IN IF rb.found # <<>> THEN StationRet(rb.found[1])
                    ELSE CommonWhileStaleSide(g, ra.mine, rb.mine, ra.next,
                                              rb.next)

\* the outer while loop: a level of side a, then a level of side b
RECURSIVE CommonWhile(_, _, _, _, _)
CommonWhile(g, visited_a, visited_b, queue_a, queue_b) ==
    IF queue_a = <<>> /\ queue_b = <<>> THEN NoneRet
    ELSE LET ra == SideWhile(g, queue_a, visited_a, visited_b, <<>>)
         IN IF ra.found # <<>> THEN StationRet(ra.found[1])
            ELSE LET rb == SideWhile(g, queue_b, visited_b, ra.mine, <<>>)
                 IN IF rb.found # <<>> THEN StationRet(rb.found[1])
                    ELSE CommonWhile(g, ra.mine, rb.mine, ra.next, rb.next)

find_nearest_common_station(g, station_a, station_b) ==
    IF ~InGraph(g, station_a) \/ ~InGraph(g, station_b) THEN NoneRet
    ELSE CommonWhile(g, {station_a}, {station_b}, <<station_a>>, <<station_b>>)

RECURSIVE ComponentFor(_, _, _, _)
ComponentFor(nbrs, i, visited, queue) ==
    IF i > Len(nbrs) THEN [visited |-> visited, queue |-> queue]
    ELSE IF nbrs[i] \notin visited
    THEN ComponentFor(nbrs, i + 1, visited \cup {nbrs[i]}, Append(queue, nbrs[i]))
    ELSE ComponentFor(nbrs, i + 1, visited, queue)

RECURSIVE ComponentWhile(_, _, _)
ComponentWhile(g, visited, queue) ==
    IF queue = <<>> THEN visited
    ELSE LET r == ComponentFor(NeighborKeys(g, Head(queue)), 1, visited, Tail(queue))
         IN ComponentWhile(g, r.visited, r.queue)

\* a traversal that stops at the neighbours of start
ComponentOfNeighbours(g, start) ==
    IF ~InGraph(g, start) THEN {}
    ELSE {start} \cup SeqToSet(NeighborKeys(g, start))

get_connected_component(g, start) ==
    IF ~InGraph(g, start) THEN {} ELSE ComponentWhile(g, {start}, <<start>>)

is_reachable(g, start, goal) == goal \in get_connected_component(g, start)

----------------------------------------------------------------------------
(* dmrc_routing.find_shortest_path_bfs *)

RECURSIVE DmrcBfsFor(_, _, _, _, _)
DmrcBfsFor(path, nbrs, i, visited, queue) ==
    IF i > Len(nbrs) THEN [visited |-> visited, queue |-> queue]
    ELSE LET neighbor == nbrs[i]
         IN IF neighbor \notin visited
            THEN DmrcBfsFor(path, nbrs, i + 1, visited \cup {neighbor},
                            QueueAppend(queue, Append(path, neighbor)))
            ELSE DmrcBfsFor(path, nbrs, i + 1, visited, queue)

RECURSIVE DmrcBfsWhile(_, _, _, _)
DmrcBfsWhile(g, end_node, visited, queue) ==
    IF queue = <<>> THEN NoneRet
    ELSE LET path == Head(queue)
             node == Last(path)
         IN IF node = end_node THEN PathRet(path)
            ELSE LET nbrs == [i \in 1..Len(g[node]) |-> g[node][i][1]]
                     r == DmrcBfsFor(path, nbrs, 1, visited, Tail(queue))
                 IN DmrcBfsWhile(g, end_node, r.visited, r.queue)

find_shortest_path_bfs(start_node, end_node, g) ==
    IF ~InGraph(g, start_node) THEN NoneRet
    ELSE IF ~InGraph(g, end_node) THEN NoneRet
    ELSE IF start_node = end_node THEN PathRet(<<start_node>>)
    ELSE DmrcBfsWhile(g, end_node, {start_node}, <<<<start_node>>>>)

----------------------------------------------------------------------------
(* Graphs handed to the path finders *)

\* the dict whose keys are `keys` and whose edge a -> b, for <<a, b>> in the
\* domain of W, has weight W[<<a, b>>]; neighbours in ascending name order
MkGraph(keys, W) ==
    [a \in keys |->
        LET nb == SetToSortedSeq({b \in keys : <<a, b>> \in DOMAIN W})
        IN [i \in 1..Len(nb) |-> <<nb[i], W[<<a, nb[i]>>]>>]]

UnorderedPairs(S) == {e \in S \X S : e[1] < e[2]}

OrderedPairs(S) == {e \in S \X S : e[1] # e[2]}

Mirror(E) == E \cup {<<e[2], e[1]>> : e \in E}

\* undirected hop graphs (weight 1) over all stations, at most MaxEdges edges
UnitGraphs ==
    {MkGraph(Stations, [e \in Mirror(E) |-> 1]) :
        E \in {F \in SUBSET UnorderedPairs(Stations) : Cardinality(F) <= MaxEdges}}

\* undirected graphs over the first NumWeighted stations, weights 0..MaxWeight
WeightedGraphs ==
    UNION {{MkGraph(1..NumWeighted,
                    [e \in Mirror(E) |-> IF e[1] < e[2] THEN w[e] ELSE w[<<e[2], e[1]>>]]) :
              w \in [E -> 0..MaxWeight]} :
           E \in SUBSET UnorderedPairs(1..NumWeighted)}

\* directed hop graphs over the first NumWeighted stations
DirectedGraphs ==
    {MkGraph(1..NumWeighted, [e \in E |-> 1]) :
        E \in SUBSET OrderedPairs(1..NumWeighted)}

GraphSet == UnitGraphs \cup WeightedGraphs \cup DirectedGraphs

----------------------------------------------------------------------------
(* The routing queries as a state machine over one graph *)

ShortMaxLength == 3

MaxLengths == {ShortMaxLength, DefaultMaxLength}

Idle == [op |-> "idle", start |-> 0, goal |-> 0, max_length |-> 0]

\* no search is being run step by step
NotRunning == [pq |-> {}, seen |-> <<>>, done |-> FALSE, ret |-> NoneRet]

\* no POST /route is being answered
NoQuery == [from_station |-> 0, to_station |-> 0]

\* no build has been run a second time
NoRebuild == [ran |-> FALSE, raised |-> FALSE]

\* no load() is running on the loader: next is the line _build_graph takes
\* next, before the graph load() found
NotLoading == [running |-> FALSE, next |-> 0, before |-> <<>>]

\* no is_reachable query on a built graph is waiting for its caller
NotAsked == [asked |-> FALSE, start |-> 0, goal |-> 0, value |-> FALSE]

\* neither entry point is imported in the routing and resolver runs
BuildersParked ==
    /\ reachable = NotAsked
    /\ row_lines = FALSE
    /\ loading = NotLoading
    /\ query = NoQuery
    /\ rebuild = NoRebuild
    /\ process = "none"
    /\ stations = <<>>
    /\ lines_index = <<>>
    /\ loader_graph = <<>>
    /\ METRO_DATA = <<>>
    /\ route_response = <<>>
    /\ METRO_NETWORKS = <<>>
    /\ METRO_GRAPH = <<>>
    /\ STATION_LINE_LOOKUP = <<>>
    /\ route_data = <<>>

\* the resolver is not part of the routing runs
NamesParked ==
    /\ metroKeys = <<>>
    /\ vname = [kind |-> "idle", val |-> <<>>, num |-> 0]
    /\ vret = [valid |-> FALSE, some |-> FALSE, name |-> <<>>]

RouteInit ==
    /\ graph \in GraphSet
    /\ call = Idle
    /\ ret = NoneRet
    /\ run = NotRunning
    /\ NamesParked
    /\ BuildersParked

CallBfs(start, goal) ==
    /\ call = Idle
    /\ call' = [op |-> "bfs_shortest_path", start |-> start, goal |-> goal,
                max_length |-> 0]
    /\ ret' = bfs_shortest_path(graph, start, goal)
    /\ graph' = GraphAfterLookups(graph, {start, goal})
    /\ UNCHANGED <<run, nameVars, metroVars>>

CallDijkstra(start, goal) ==
    /\ call = Idle
    /\ call' = [op |-> "dijkstra", start |-> start, goal |-> goal, max_length |-> 0]
    /\ ret' = dijkstra(graph, start, goal)
    /\ graph' = GraphAfterLookups(graph, {start, goal})
    /\ UNCHANGED <<run, nameVars, metroVars>>

CallAllPaths(start, goal, max_length) ==
    /\ call = Idle
    /\ call' = [op |-> "get_all_paths_limited", start |-> start, goal |-> goal,
                max_length |-> max_length]
    /\ ret' = get_all_paths_limited(graph, start, goal, max_length)
    /\ graph' = GraphAfterLookups(graph, {start, goal})
    /\ UNCHANGED <<run, nameVars, metroVars>>

CallDmrcBfs(start, goal) ==
    /\ call = Idle
    /\ call' = [op |-> "find_shortest_path_bfs", start |-> start, goal |-> goal,
                max_length |-> 0]
    /\ ret' = find_shortest_path_bfs(start, goal, graph)
    /\ graph' = GraphAfterLookups(graph, {start, goal})
    /\ UNCHANGED <<run, nameVars, metroVars>>

CallCommon(station_a, station_b) ==
    /\ call = Idle
    /\ call' = [op |-> "find_nearest_common_station", start |-> station_a,
                goal |-> station_b, max_length |-> 0]
    /\ ret' = find_nearest_common_station(graph, station_a, station_b)
    /\ graph' = GraphAfterLookups(graph, {station_a, station_b})
    /\ UNCHANGED <<run, nameVars, metroVars>>

CallReachable(start, goal) ==
    /\ call = Idle
    /\ call' = [op |-> "is_reachable", start |-> start, goal |-> goal,
                max_length |-> 0]
    /\ ret' = BoolRet(is_reachable(graph, start, goal))
    /\ graph' = GraphAfterLookups(graph, {start, goal})
    /\ UNCHANGED <<run, nameVars, metroVars>>

\* the caller has consumed the result; the next query may run
Finish ==
    /\ call # Idle
    /\ call' = Idle
    /\ ret' = NoneRet
    /\ UNCHANGED <<graph, run, nameVars, metroVars>>

RouteNext ==
    \/ \E start \in Names, goal \in Names : CallBfs(start, goal)
    \/ \E start \in Names, goal \in Names : CallDijkstra(start, goal)
    \/ \E start \in Names, goal \in Names, max_length \in MaxLengths :
            CallAllPaths(start, goal, max_length)
    \/ \E start \in Names, goal \in Names : CallDmrcBfs(start, goal)
    \/ \E station_a \in Names, station_b \in Names : CallCommon(station_a, station_b)
    \/ \E start \in Names, goal \in Names : CallReachable(start, goal)
    \/ Finish

SpecRoute == RouteInit /\ [][RouteNext]_vars

----------------------------------------------------------------------------
(* Reference notions the claims are stated with (not taken from the code) *)

\* the stations one edge away from a station of S, and S itself
Step(g, S) == S \cup {b \in DOMAIN g : \E a \in S : HasEdge(g, a, b)}

RECURSIVE ReachWithin(_, _, _)
ReachWithin(g, S, k) == IF k = 0 THEN S ELSE ReachWithin(g, Step(g, S), k - 1)

Reachable(g, a, b) == b \in ReachWithin(g, {a}, Cardinality(DOMAIN g))

\* number of edges of a shortest path, for b reachable from a
HopDistance(g, a, b) ==
    Min({k \in 0..Cardinality(DOMAIN g) : b \in ReachWithin(g, {a}, k)})

IsPath(g, p, a, b) ==
    /\ Len(p) >= 1
    /\ p[1] = a
    /\ p[Len(p)] = b
    /\ \A i \in 1..(Len(p) - 1) : HasEdge(g, p[i], p[i + 1])

\* sum of the stored weights along p
RECURSIVE PathWeight(_, _)
PathWeight(g, p) ==
    IF Len(p) < 2 THEN 0
    ELSE Weight(g, p[1], p[2]) + PathWeight(g, Tail(p))

Infinity == (NumStations + 1) * (MaxWeight + 1)

\* Bellman-Ford over stored weights: least weight of a walk of at most k edges
RECURSIVE LeastWeight(_, _, _)
LeastWeight(g, a, k) ==
    IF k = 0 THEN [v \in DOMAIN g |-> IF v = a THEN 0 ELSE Infinity]
    ELSE LET D == LeastWeight(g, a, k - 1)
         IN [v \in DOMAIN g |->
                Min({D[v]} \cup {D[u] + Weight(g, u, v) :
                                  u \in {x \in DOMAIN g : HasEdge(g, x, v)}})]

MinDistance(g, a, b) == LeastWeight(g, a, Cardinality(DOMAIN g))[b]

BothInGraph == InGraph(graph, call.start) /\ InGraph(graph, call.goal)

----------------------------------------------------------------------------
(* Claims about the path finders, checked under SpecRoute *)

\* C1: for a destination reachable from the source, both fewest-hops searches
\* return a path with the least possible number of vertices (hop distance + 1),
\* and no path enumerated by get_all_paths_limited for the pair is shorter.
C1_FewestHops ==
    (/\ call.op \in {"bfs_shortest_path", "find_shortest_path_bfs"}
     /\ BothInGraph
     /\ Reachable(graph, call.start, call.goal))
    => /\ ~ret.none
       /\ Len(ret.path) = HopDistance(graph, call.start, call.goal) + 1
       /\ \A ml \in MaxLengths :
            LET ps == get_all_paths_limited(graph, call.start, call.goal, ml).paths
            IN \A i \in 1..Len(ps) : Len(ret.path) <= Len(ps[i])

\* a fewest-hops answer of three stations where a longer alternative exists
C1_Witness ==
    /\ call.op \in {"bfs_shortest_path", "find_shortest_path_bfs"}
    /\ ~ret.none
    /\ Len(ret.path) = 3
    /\ LET ps == get_all_paths_limited(graph, call.start, call.goal,
                                       DefaultMaxLength).paths
       IN \E i \in 1..Len(ps) : Len(ps[i]) > 3

\* C2: for non-negative weights (zero included) and a reachable pair, dijkstra
\* returns (d, p) with p a source-to-destination path, d the sum of the stored
\* weights along p, and d the least such sum over all paths.
C2_DijkstraLeastStoredWeight ==
    (/\ call.op = "dijkstra"
     /\ BothInGraph
     /\ Reachable(graph, call.start, call.goal))
    => /\ ~ret.none
       /\ IsPath(graph, ret.path, call.start, call.goal)
       /\ ret.dist = PathWeight(graph, ret.path)
       /\ ret.dist = MinDistance(graph, call.start, call.goal)

\* C3: bfs_shortest_path and dijkstra return None whenever the source or the
\* destination is not a vertex, and whenever no path connects the two.
C3_AbsentOrUnreachableIsNone ==
    (/\ call.op \in {"bfs_shortest_path", "dijkstra"}
     /\ \/ ~InGraph(graph, call.start)
        \/ ~InGraph(graph, call.goal)
        \/ ~Reachable(graph, call.start, call.goal))
    => ret.none

\* C4: every path returned for two vertices starts at the source, ends at the
\* destination, and moves along edges of the graph only.
C4_ReturnedPathsAreValid ==
    BothInGraph =>
       /\ (call.op \in {"bfs_shortest_path", "find_shortest_path_bfs", "dijkstra"}
           /\ ~ret.none)
          => IsPath(graph, ret.path, call.start, call.goal)
       /\ call.op = "get_all_paths_limited"
          => \A i \in 1..Len(ret.paths) :
                IsPath(graph, ret.paths[i], call.start, call.goal)

\* two different routes enumerated for one pair, one of them with a detour
C4_Witness ==
    /\ call.op = "get_all_paths_limited"
    /\ Len(ret.paths) >= 2
    /\ \E i \in 1..Len(ret.paths) : Len(ret.paths[i]) >= 4

----------------------------------------------------------------------------
(* dmrc_helpers: station name resolver.  A Python str is a sequence of      *)
(* one-character strings.                                                   *)

MaxNameLen == 3
MaxInputLen == 4
MaxKeys == 2

\* the characters names and inputs are drawn from
Alphabet == {"a", "A", " "}

\* code point order of the characters (str comparison)
CharRank(c) ==
    CASE c = " " -> 32 [] c = "1" -> 49 [] c = "A" -> 65 [] c = "B" -> 66
      [] c = "a" -> 97 [] c = "b" -> 98

IsSpace(c) == c = " "

IsUpper(c) == c \in {"A", "B"}

IsLower(c) == c \in {"a", "b"}

CharLower(c) == CASE c = "A" -> "a" [] c = "B" -> "b" [] OTHER -> c

CharUpper(c) == CASE c = "a" -> "A" [] c = "b" -> "B" [] OTHER -> c

\* str.lower()
Lower(s) == [i \in 1..Len(s) |-> CharLower(s[i])]

\* str.title(): a cased character is upper-cased when the character before
\* it is not cased, and lower-cased when it is
Title(s) ==
    [i \in 1..Len(s) |->
        LET prevCased == i > 1 /\ (IsUpper(s[i - 1]) \/ IsLower(s[i - 1]))
        IN IF prevCased THEN CharLower(s[i]) ELSE CharUpper(s[i])]

\* str.strip()
RECURSIVE LStrip(_)
LStrip(s) == IF s # <<>> /\ IsSpace(Head(s)) THEN LStrip(Tail(s)) ELSE s

RECURSIVE RStrip(_)
RStrip(s) ==
    IF s # <<>> /\ IsSpace(s[Len(s)]) THEN RStrip(SubSeq(s, 1, Len(s) - 1)) ELSE s

Strip(s) == RStrip(LStrip(s))

\* " ".join(s.split()) of a stripped string: every run of spaces becomes one
RECURSIVE JoinSplit(_)
JoinSplit(s) ==
    IF Len(s) < 2 THEN s
    ELSE IF IsSpace(s[1]) /\ IsSpace(s[2]) THEN JoinSplit(Tail(s))
    ELSE <<s[1]>> \o JoinSplit(Tail(s))

\* name.strip() alone, internal runs of spaces kept
StripOnly(s) == Strip(s)

\* " ".join(name.strip().split())
Collapse(s) == JoinSplit(Strip(s))

\* inputs of validate_station: a str, None, or an int
StrIn(s) == [kind |-> "str", val |-> s, num |-> 0]

NoneIn == [kind |-> "None", val |-> <<>>, num |-> 0]

IntIn(n) == [kind |-> "int", val |-> <<>>, num |-> n]

\* Python truth value of the input (`if not name`)
Truthy(name) ==
    CASE name.kind = "str" -> name.val # <<>>
      [] name.kind = "int" -> name.num # 0
      [] OTHER -> FALSE

normalize_station_name(name) ==
    IF name.kind # "str" THEN <<>> ELSE Title(Collapse(name.val))

\* str comparison a < b
RECURSIVE StrLess(_, _)
StrLess(a, b) ==
    IF b = <<>> THEN FALSE
    ELSE IF a = <<>> THEN TRUE
    ELSE IF Head(a) # Head(b) THEN CharRank(Head(a)) < CharRank(Head(b))
    ELSE StrLess(Tail(a), Tail(b))

----------------------------------------------------------------------------
(* difflib.SequenceMatcher(a = possibility, b = word) and get_close_matches *)

\* find_longest_match on whole strings (no junk): the longest common block,
\* the earliest in a among the longest, the earliest in b among those
LongestMatch(a, b) ==
    LET blocks == {t \in (1..Len(a)) \X (1..Len(b)) \X (1..Len(a)) :
                      /\ t[1] + t[3] - 1 <= Len(a)
                      /\ t[2] + t[3] - 1 <= Len(b)
                      /\ SubSeq(a, t[1], t[1] + t[3] - 1)
                            = SubSeq(b, t[2], t[2] + t[3] - 1)}
    IN IF blocks = {} THEN <<1, 1, 0>>
       ELSE CHOOSE t \in blocks : \A u \in blocks :
               \/ t[3] > u[3]
               \/ t[3] = u[3] /\ t[1] < u[1]
               \/ t[3] = u[3] /\ t[1] = u[1] /\ t[2] <= u[2]

\* get_matching_blocks: total size of the blocks, found by splitting around
\* the longest match and recursing to its left and to its right
RECURSIVE Matches(_, _)
Matches(a, b) ==
    IF a = <<>> \/ b = <<>> THEN 0
    ELSE LET t == LongestMatch(a, b)
         IN IF t[3] = 0 THEN 0
            ELSE t[3]
                 + Matches(SubSeq(a, 1, t[1] - 1), SubSeq(b, 1, t[2] - 1))
                 + Matches(SubSeq(a, t[1] + t[3], Len(a)),
                           SubSeq(b, t[2] + t[3], Len(b)))

\* a ratio 2.0*matches/length as the pair <<matches, length>>;
\* _calculate_ratio gives 1.0 when length is 0
Ratio(a, b) == IF Len(a) + Len(b) = 0 THEN <<1, 2>> ELSE <<Matches(a, b), Len(a) + Len(b)>>

\* quick_ratio: the characters of b available in a, counted with multiplicity
QuickRatio(a, b) ==
    LET cnt(s, c) == Cardinality({i \in 1..Len(s) : s[i] = c})
        RECURSIVE Sum(_)
        Sum(C) == IF C = {} THEN 0
                  ELSE LET c == CHOOSE x \in C : TRUE
                       IN (IF cnt(a, c) < cnt(b, c) THEN cnt(a, c) ELSE cnt(b, c))
                          + Sum(C \ {c})
    IN IF Len(a) + Len(b) = 0 THEN <<1, 2>>
       ELSE <<Sum(SeqToSet(b)), Len(a) + Len(b)>>

RealQuickRatio(a, b) ==
    IF Len(a) + Len(b) = 0 THEN <<1, 2>>
    ELSE <<(IF Len(a) < Len(b) THEN Len(a) ELSE Len(b)), Len(a) + Len(b)>>

\* a comparison that lets every score pass
MeetsNoCutoff(r) == 2 * r[1] >= 0 * r[2]

\* score >= cutoff, with cutoff = 0.6: 2*m/t >= 6/10
MeetsCutoff(r) == 10 * 2 * r[1] >= 6 * r[2]

\* order of the (score, x) tuples that heapq.nlargest compares
ScoredLess(r1, x1, r2, x2) ==
    \/ r1[1] * r2[2] < r2[1] * r1[2]
    \/ r1[1] * r2[2] = r2[1] * r1[2] /\ StrLess(x1, x2)

\* the first possibility that meets the cutoff is taken
FirstCloseMatch(word, possibilities) ==
    LET result == {i \in 1..Len(possibilities) :
                      MeetsCutoff(Ratio(possibilities[i], word))}
    IN IF result = {} THEN <<>>
       ELSE <<possibilities[CHOOSE i \in result : \A j \in result : i <= j]>>

\* difflib.get_close_matches(word, possibilities, n=1, cutoff=0.6): the list
\* of at most one best match
get_close_matches(word, possibilities) ==
    LET result == {i \in 1..Len(possibilities) :
                      /\ MeetsCutoff(RealQuickRatio(possibilities[i], word))
                      /\ MeetsCutoff(QuickRatio(possibilities[i], word))
                      /\ MeetsCutoff(Ratio(possibilities[i], word))}
    IN IF result = {} THEN <<>>
       ELSE LET best == CHOOSE i \in result : \A j \in result \ {i} :
                           ScoredLess(Ratio(possibilities[j], word), possibilities[j],
                                      Ratio(possibilities[i], word), possibilities[i])
            IN <<possibilities[best]>>

----------------------------------------------------------------------------
(* dmrc_helpers.validate_station over the keys of METRO_GRAPH *)

Found(n) == [valid |-> TRUE, some |-> TRUE, name |-> n]

Suggestion(n) == [valid |-> FALSE, some |-> TRUE, name |-> n]

NoMatch == [valid |-> FALSE, some |-> FALSE, name |-> <<>>]

\* the case-insensitive step written to return the cleaned input itself
CaseInsensitiveMatchClean(clean_name, keys) == clean_name

\* stations_lower[clean_name.lower()], where stations_lower = {k.lower(): k}:
\* of several keys with one lower-case form, the last one is kept
CaseInsensitiveMatch(clean_name, keys) ==
    LET hits == {i \in 1..Len(keys) : Lower(keys[i]) = Lower(clean_name)}
    IN keys[CHOOSE i \in hits : \A j \in hits : j <= i]

validate_station(name, keys) ==
    IF ~Truthy(name) THEN NoMatch
    ELSE LET clean_name == normalize_station_name(name)
         IN IF clean_name \in SeqToSet(keys) THEN Found(clean_name)
            ELSE IF \E i \in 1..Len(keys) : Lower(keys[i]) = Lower(clean_name)
            THEN Found(CaseInsensitiveMatch(clean_name, keys))
            ELSE LET matches == get_close_matches(clean_name, keys)
                 IN IF matches # <<>> THEN Suggestion(matches[1]) ELSE NoMatch

----------------------------------------------------------------------------
(* The resolver as a state machine over one METRO_GRAPH *)

Strings(n) == UNION {[1..k -> Alphabet] : k \in 0..n}

\* station names as the dataset writes them: not empty, no leading, trailing
\* or repeated space
StoredNames ==
    {s \in Strings(MaxNameLen) :
        /\ s # <<>>
        /\ ~IsSpace(s[1])
        /\ ~IsSpace(s[Len(s)])
        /\ \A i \in 1..(Len(s) - 1) : ~(IsSpace(s[i]) /\ IsSpace(s[i + 1]))}

\* dicts of at most MaxKeys stations
KeySeqs ==
    {q \in UNION {[1..k -> StoredNames] : k \in 1..MaxKeys} :
        \A i \in 1..Len(q), j \in 1..Len(q) : i # j => q[i] # q[j]}

\* a truthy int
SomeInt == 7

Inputs == {StrIn(s) : s \in Strings(MaxInputLen)} \cup {NoneIn, IntIn(0), IntIn(SomeInt)}

NoInput == [kind |-> "idle", val |-> <<>>, num |-> 0]

\* the routing queries are not part of the resolver runs
RouteParked ==
    /\ graph = <<>>
    /\ call = Idle
    /\ ret = NoneRet
    /\ run = NotRunning

NamesInit ==
    /\ metroKeys \in KeySeqs
    /\ vname = NoInput
    /\ vret = NoMatch
    /\ RouteParked
    /\ BuildersParked

CallValidate(name) ==
    /\ vname = NoInput
    /\ vname' = name
    /\ vret' = validate_station(name, metroKeys)
    /\ UNCHANGED <<metroKeys, routeVars, metroVars>>

\* the caller (chat_api, run_tests) has used the answer
ValidateDone ==
    /\ vname # NoInput
    /\ vname' = NoInput
    /\ vret' = NoMatch
    /\ UNCHANGED <<metroKeys, routeVars, metroVars>>

NamesNext ==
    \/ \E name \in Inputs : CallValidate(name)
    \/ ValidateDone

SpecNames == NamesInit /\ [][NamesNext]_vars

----------------------------------------------------------------------------
(* Claims about the resolver, checked under SpecNames *)

\* a stored name written in title case (single spaces hold for every key)
IsTitleCase(k) == Title(k) = k

\* the words of a string: its maximal runs of non-space characters
RECURSIVE WordsOf(_)
WordsOf(s) ==
    IF s = <<>> THEN <<>>
    ELSE IF IsSpace(Head(s)) THEN WordsOf(Tail(s))
    ELSE LET ends == {i \in 1..Len(s) : IsSpace(s[i])}
             n == IF ends = {} THEN Len(s) + 1 ELSE Min(ends)
         IN <<SubSeq(s, 1, n - 1)>> \o WordsOf(SubSeq(s, n, Len(s)))

\* the input is a str that differs from k only in letter case and in leading,
\* trailing or repeated internal whitespace: same words, case aside
DiffersInCaseAndSpaceOnly(name, k) ==
    /\ name.kind = "str"
    /\ WordsOf(Lower(name.val)) = WordsOf(Lower(k))

\* C6: an input that differs from a title-case stored name only in letter case
\* and surplus whitespace is answered (True, that stored name).
C6_CaseAndSpaceInsensitiveMatch ==
    \A i \in 1..Len(metroKeys) :
        (/\ vname # NoInput
         /\ IsTitleCase(metroKeys[i])
         /\ DiffersInCaseAndSpaceOnly(vname, metroKeys[i]))
        => vret = Found(metroKeys[i])

\* "a  a" (a repeated inner space, lower case) resolved to "A A"
C6_Witness ==
    /\ vname.kind = "str"
    /\ \E i \in 1..(Len(vname.val) - 1) : IsSpace(vname.val[i]) /\ IsSpace(vname.val[i + 1])
    /\ vname.val # Title(vname.val)
    /\ vret.valid
    /\ \E i \in 1..Len(vret.name) : IsSpace(vret.name[i])
    /\ IsTitleCase(vret.name)

\* C7: (True, n) only for a key n equal to the normalized input up to case;
\* (False, s) only for a key s when neither an exact nor a case-insensitive
\* match exists; exact and case-insensitive hits win over the fuzzy step.
C7_FirstHitWins ==
    vname # NoInput =>
        LET clean == normalize_station_name(vname)
            keyset == SeqToSet(metroKeys)
            exact == clean \in keyset
            nocase == \E k \in keyset : Lower(k) = Lower(clean)
        IN /\ vret.valid =>
                /\ vret.some
                /\ vret.name \in keyset
                /\ Lower(vret.name) = Lower(clean)
           /\ (~vret.valid /\ vret.some) =>
                /\ vret.name \in keyset
                /\ ~exact
                /\ ~nocase
           /\ (Truthy(vname) /\ exact) => vret = Found(clean)
           /\ (Truthy(vname) /\ nocase) => vret.valid
           /\ (~vret.valid /\ ~vret.some) => vret = NoMatch

\* a case-insensitive hit on a key that is not in title case, while another
\* key is there for the fuzzy step to offer
C7_Witness ==
    /\ vname # NoInput
    /\ vret.valid
    /\ vret.name # normalize_station_name(vname)
    /\ Len(metroKeys) = MaxKeys

\* C8: empty input and non-string input give (False, None).
C8_EmptyOrNonStringIsNoMatch ==
    (/\ vname # NoInput
     /\ \/ vname.kind # "str"
        \/ vname.val = <<>>)
    => vret = NoMatch

\* a truthy non-string went through normalisation and the three match steps
C8_Witness ==
    /\ vname.kind = "int"
    /\ Truthy(vname)
    /\ vret = NoMatch

----------------------------------------------------------------------------
(* Bounds of the builder model *)

\* stations the short lines of the loader's CSV draw on
NumShort == 3
\* longest short line of the loader's CSV
MaxShortLen == 2
\* the one long line: long enough for len(ordered)//3 to exceed 2
LongLen == 9
\* stations and line length of METRO_NETWORKS
NumDmrcStations == 4
MaxDmrcLen == 3

\* stations of the longest path handed to format_route_details directly
MaxWalkLen == 4

----------------------------------------------------------------------------
(* Python list and dict helpers *)

\* list[i] with Python's 0-based index
At(list, i) == list[i + 1]

\* list[a:b]
Slice(list, a, b) == SubSeq(list, a + 1, b)

\* list.index(x), for x in list
ListIndex(list, x) == Min({i \in 1..Len(list) : list[i] = x}) - 1

Max2(a, b) == IF a >= b THEN a ELSE b

Min2(a, b) == IF a <= b THEN a ELSE b

\* d[k] = v on a dict kept as <<key, value>> pairs in insertion order
DictSet(d, k, v) ==
    IF \E i \in 1..Len(d) : d[i][1] = k
    THEN [i \in 1..Len(d) |-> IF d[i][1] = k THEN <<k, v>> ELSE d[i]]
    ELSE Append(d, <<k, v>>)

\* defaultdict(dict)()
EmptyGraph == [x \in {} |-> <<>>]

\* graph[a][b] = w, on a defaultdict(dict)
SetEdge(g, a, b, w) ==
    [x \in DOMAIN g \cup {a} |->
        IF x = a THEN DictSet(GraphGet(g, a), b, w) ELSE g[x]]

\* the station is given no key of its own
EnsureKeySkipped(g, node) == g

\* if node not in graph: graph[node] = {}
EnsureKey(g, node) ==
    IF node \in DOMAIN g THEN g
    ELSE [x \in DOMAIN g \cup {node} |-> IF x = node THEN <<>> ELSE g[x]]

\* every way to pick one element of each set of a sequence of sets
RECURSIVE Choices(_)
Choices(sets) ==
    IF sets = <<>> THEN {<<>>}
    ELSE {<<h>> \o t : h \in Head(sets), t \in Choices(Tail(sets))}

----------------------------------------------------------------------------
(* station_loader.py: StationLoader *)

\* coordinates are kept as {lat, lon}; None is <<>>, the float v is <<v>>
NoCoordinates == [coordinates |-> [lat |-> <<>>, lon |-> <<>>]]

\* the great-circle distance of two points; the stations of the model lie on
\* one meridian and latitude is counted in units of one kilometre of arc
haversine_km(a_lat, a_lon, b_lat, b_lon) == Abs(b_lat - a_lat)

_has_coords(st, name) ==
    LET c == IF name \in DOMAIN st THEN st[name].coordinates
             ELSE [lat |-> <<>>, lon |-> <<>>]
    IN c.lat # <<>> /\ c.lon # <<>>

\* haversine_km of two stations that both have coordinates
StationDistance(st, a, b) ==
    haversine_km(st[a].coordinates.lat[1], st[a].coordinates.lon[1],
                 st[b].coordinates.lat[1], st[b].coordinates.lon[1])

\* the weight of an edge whose ends do not both have coordinates
DefaultDistance == 1

\* only self.graph[a][b] = d is written
AddEdgeOneWay(st, g, a, b) ==
    IF a \notin DOMAIN st \/ b \notin DOMAIN st THEN g
    ELSE LET d == IF _has_coords(st, a) /\ _has_coords(st, b)
                  THEN StationDistance(st, a, b) ELSE DefaultDistance
         IN SetEdge(g, a, b, d)

_add_edge(st, g, a, b) ==
    IF a \notin DOMAIN st \/ b \notin DOMAIN st THEN g
    ELSE LET d == IF _has_coords(st, a) /\ _has_coords(st, b)
                  THEN StationDistance(st, a, b) ELSE DefaultDistance
         IN SetEdge(SetEdge(g, a, b, d), b, a, d)

\* ordered = [s for s in stations if not (s in seen or seen.add(s))]
RECURSIVE Ordered(_, _)
Ordered(line_stations, seen) ==
    IF line_stations = <<>> THEN <<>>
    ELSE IF Head(line_stations) \in seen THEN Ordered(Tail(line_stations), seen)
    ELSE <<Head(line_stations)>>
         \o Ordered(Tail(line_stations), seen \cup {Head(line_stations)})

\* coords_count = sum(1 for s in ordered if self._has_coords(s))
CoordsCount(st, ordered) ==
    Cardinality({i \in 1..Len(ordered) : _has_coords(st, ordered[i])})

\* the test on the coordinates left out
AlwaysSequenceMode(st, ordered) == Len(ordered) >= 2

\* len(ordered) >= 2 and coords_count >= max(2, len(ordered)//3)
SequenceMode(st, ordered) ==
    /\ Len(ordered) >= 2
    /\ CoordsCount(st, ordered) >= Max2(2, Len(ordered) \div 3)

\* for a, b in zip(ordered, ordered[1:]): self._add_edge(a, b)
RECURSIVE AddSequenceEdges(_, _, _, _)
AddSequenceEdges(st, g, ordered, i) ==
    IF i >= Len(ordered) THEN g
    ELSE AddSequenceEdges(st, _add_edge(st, g, ordered[i], ordered[i + 1]),
                          ordered, i + 1)

\* tuples (d, t) compare by distance, then by station name
PairLess(p, q) == p[1] < q[1] \/ (p[1] = q[1] /\ p[2] < q[2])

\* distances.sort()
RECURSIVE SortedPairs(_)
SortedPairs(S) ==
    IF S = {} THEN <<>>
    ELSE LET m == CHOOSE p \in S : \A q \in S \ {p} : PairLess(p, q)
         IN <<m>> \o SortedPairs(S \ {m})

\* distances[:2] for station s: its two nearest stations of the line
NearestTwo(st, ordered, s) ==
    LET others == {t \in SeqToSet(ordered) : t # s /\ _has_coords(st, t)}
        distances == SortedPairs({<<StationDistance(st, s, t), t>> : t \in others})
    IN Slice(distances, 0, Min2(2, Len(distances)))

\* for _, t in distances[:2]: self._add_edge(s, t)
RECURSIVE AddEdgesTo(_, _, _, _, _)
AddEdgesTo(st, g, s, nearest, i) ==
    IF i > Len(nearest) THEN g
    ELSE AddEdgesTo(st, _add_edge(st, g, s, nearest[i][2]), s, nearest, i + 1)

\* the else branch: every station with coordinates is joined to its nearest two
RECURSIVE AddNearestEdges(_, _, _, _)
AddNearestEdges(st, g, ordered, i) ==
    IF i > Len(ordered) THEN g
    ELSE IF ~_has_coords(st, ordered[i])
    THEN AddNearestEdges(st, g, ordered, i + 1)
    ELSE AddNearestEdges(st,
             AddEdgesTo(st, g, ordered[i], NearestTwo(st, ordered, ordered[i]), 1),
             ordered, i + 1)

\* one iteration of the loop over self.lines_index.items()
BuildLine(st, g, line_stations) ==
    LET ordered == Ordered(line_stations, {})
    IN IF SequenceMode(st, ordered)
       THEN AddSequenceEdges(st, g, ordered, 1)
       ELSE AddNearestEdges(st, g, ordered, 1)

RECURSIVE BuildLines(_, _, _, _)
BuildLines(li, st, g, k) ==
    IF k > Len(li) THEN g
    ELSE BuildLines(li, st, BuildLine(st, g, li[k][2]), k + 1)

\* StationLoader._build_graph, run on the graph g
_build_graph(li, st, g) == BuildLines(li, st, g, 1)

----------------------------------------------------------------------------
(* main.py: the startup sync and POST /route *)

\* startup_event: METRO_DATA[key]["stations"] = stations for every line of
\* STATION_LOADER.lines_index (the key of a line is its canonical name)
SyncMetroData(li) == [k \in 1..Len(li) |-> <<li[k][1], li[k][2]>>]

\* _STATION_LOOKUP, rebuilt from METRO_DATA: the names it resolves
STATION_LOOKUP(md) == UNION {SeqToSet(md[k][2]) : k \in 1..Len(md)}

\* normalize_station: <<>> is None, <<s>> the canonical name s
normalize_station(md, name) ==
    IF name \in STATION_LOOKUP(md) THEN <<name>> ELSE <<>>

\* METRO_DATA[line_code]["stations"]
LineStations(md, line_code) ==
    md[CHOOSE k \in 1..Len(md) : md[k][1] = line_code][2]

RECURSIVE get_station_lines(_, _)
get_station_lines(md, station) ==
    IF md = <<>> THEN <<>>
    ELSE (IF station \in SeqToSet(Head(md)[2]) THEN <<Head(md)[1]>> ELSE <<>>)
         \o get_station_lines(Tail(md), station)

\* the adjacency test of lines 665-669
AdjacentOnLine(md, line_code, current_st, next_st) ==
    LET line_stations == LineStations(md, line_code)
    IN /\ current_st \in SeqToSet(line_stations)
       /\ next_st \in SeqToSet(line_stations)
       /\ Abs(ListIndex(line_stations, current_st)
              - ListIndex(line_stations, next_st)) = 1

\* the loop of lines 662-671: the first line of current_lines that is also
\* in next_lines and has the two stations adjacent; <<>> is None
RECURSIVE VerifiedLine(_, _, _, _, _, _)
VerifiedLine(md, current_lines, next_lines, current_st, next_st, i) ==
    IF i > Len(current_lines) THEN <<>>
    ELSE IF /\ current_lines[i] \in SeqToSet(next_lines)
            /\ AdjacentOnLine(md, current_lines[i], current_st, next_st)
    THEN <<current_lines[i]>>
    ELSE VerifiedLine(md, current_lines, next_lines, current_st, next_st, i + 1)

\* the values connecting_line can end with; list(set)[0] is any element of
\* the set, and raises IndexError on the empty set (no value at all)
ConnectingLines(md, current_st, next_st) ==
    LET current_lines == get_station_lines(md, current_st)
        next_lines == get_station_lines(md, next_st)
        verified == VerifiedLine(md, current_lines, next_lines,
                                 current_st, next_st, 1)
    IN IF verified # <<>> THEN {verified}
       ELSE IF current_lines # <<>> /\ next_lines # <<>>
       THEN {<<c>> : c \in SeqToSet(current_lines) \cap SeqToSet(next_lines)}
       ELSE {<<>>}

\* the lists edge_lines can end as (none if an IndexError was raised)
EdgeLines(md, path) ==
    Choices([i \in 1..(Len(path) - 1) |-> ConnectingLines(md, path[i], path[i + 1])])

Segment(path, current_line, segment_start, segment_end) ==
    [line |-> current_line,
     start_station |-> At(path, segment_start),
     end_station |-> At(path, segment_end),
     stations |-> Slice(path, segment_start, segment_end + 1),
     station_count |-> segment_end - segment_start + 1,
     is_start |-> (segment_start = 0),
     is_interchange |-> (segment_start > 0)]

\* the loop of lines 685-700 and the final segment of lines 703-713
RECURSIVE SegmentsLoop(_, _, _, _, _, _)
SegmentsLoop(path, edge_lines, i, current_line, segment_start, segments) ==
    IF i >= Len(edge_lines)
    THEN Append(segments, Segment(path, current_line, segment_start, Len(edge_lines)))
    ELSE IF At(edge_lines, i) # current_line
    THEN SegmentsLoop(path, edge_lines, i + 1, At(edge_lines, i), i,
                      Append(segments, Segment(path, current_line, segment_start, i)))
    ELSE SegmentsLoop(path, edge_lines, i + 1, current_line, segment_start, segments)

BuildSegments(path, edge_lines) ==
    IF edge_lines = <<>> THEN <<>>
    ELSE SegmentsLoop(path, edge_lines, 1, At(edge_lines, 0), 0, <<>>)

NoResponse ==
    [status |-> 0, detail |-> "", stations |-> <<>>, total_stations |-> 0,
     segments |-> <<>>, num_interchanges |-> 0]

HTTPException(status_code, detail) ==
    [status |-> status_code, detail |-> detail, stations |-> <<>>,
     total_stations |-> 0, segments |-> <<>>, num_interchanges |-> 0]

RouteResponse(path, segments) ==
    [status |-> 200, detail |-> "", stations |-> path,
     total_stations |-> Len(path), segments |-> segments,
     num_interchanges |-> Max2(Len(segments) - 1, 0)]

\* main.find_route: the responses POST /route can give
main_find_route(md, g, from_station, to_station) ==
    LET from_st == normalize_station(md, from_station)
        to_st == normalize_station(md, to_station)
    IN IF from_st = <<>> THEN {HTTPException(404, "From station not found")}
       ELSE IF to_st = <<>> THEN {HTTPException(404, "To station not found")}
       ELSE IF from_st = to_st
       THEN {HTTPException(400, "From and To stations are the same")}
       ELSE LET path == bfs_shortest_path(g, from_st[1], to_st[1])
            IN IF path.none
               THEN {HTTPException(404, "No route found between these stations")}
               ELSE IF EdgeLines(md, path.path) = {}
               THEN {HTTPException(500, "IndexError")}
               ELSE {RouteResponse(path.path, BuildSegments(path.path, edge_lines)) :
                        edge_lines \in EdgeLines(md, path.path)}

----------------------------------------------------------------------------
(* dmrc_dataset.py, dmrc_graph.py: METRO_GRAPH and STATION_LINE_LOOKUP *)

\* the records of one line: name, line, neighbors = [previous, next]
RecordsOfLine(line, line_stations) ==
    [i \in 1..Len(line_stations) |->
        [name |-> line_stations[i], line |-> line,
         neighbors |-> (IF i > 1 THEN <<line_stations[i - 1]>> ELSE <<>>)
                       \o (IF i < Len(line_stations)
                           THEN <<line_stations[i + 1]>> ELSE <<>>)]]

generate_dmrc_dataset(networks) ==
    Flatten([k \in 1..Len(networks) |-> RecordsOfLine(networks[k][1], networks[k][2])])

\* the weight of every edge of METRO_GRAPH
HopWeight == 1

\* for neighbor in record['neighbors']: both directions are written
RECURSIVE AddNeighbors(_, _, _, _)
AddNeighbors(g, station, neighbors, i) ==
    IF i > Len(neighbors) THEN g
    ELSE LET neighbor == neighbors[i]
             g1 == SetEdge(g, station, neighbor, HopWeight)
             g2 == SetEdge(EnsureKey(g1, neighbor), neighbor, station, HopWeight)
         IN AddNeighbors(g2, station, neighbors, i + 1)

RECURSIVE BuildRecords(_, _, _)
BuildRecords(dataset, g, i) ==
    IF i > Len(dataset) THEN g
    ELSE BuildRecords(dataset,
             AddNeighbors(EnsureKey(g, dataset[i].name), dataset[i].name,
                          dataset[i].neighbors, 1),
             i + 1)

build_metro_graph(dataset) == BuildRecords(dataset, EmptyGraph, 1)

\* station -> sorted list of its lines
get_station_line_map(dataset) ==
    [s \in {dataset[i].name : i \in 1..Len(dataset)} |->
        SetToSortedSeq({dataset[i].line : i \in {j \in 1..Len(dataset) : dataset[j].name = s}})]

----------------------------------------------------------------------------
(* dmrc_routing.py: the segmenter and find_route *)

UnknownLine == 0

\* the values get_connecting_line can return: list(common_lines)[0] is any
\* element of the set
get_connecting_line(lookup, station1, station2) ==
    LET lines1 == IF station1 \in DOMAIN lookup THEN SeqToSet(lookup[station1]) ELSE {}
        lines2 == IF station2 \in DOMAIN lookup THEN SeqToSet(lookup[station2]) ELSE {}
        common_lines == lines1 \cap lines2
    IN IF common_lines = {} THEN {UnknownLine} ELSE common_lines

\* the lines get_connecting_line can return for each edge of the path
ConnectingLineChoices(lookup, path) ==
    Choices([i \in 1..(Len(path) - 1) |->
                get_connecting_line(lookup, path[i], path[i + 1])])

RouteStep(path, start_station, end_station, current_line, end_index) ==
    [start |-> start_station, end |-> end_station, line |-> current_line,
     stops |-> end_index - ListIndex(path, start_station)]

\* the segment that follows starts one station late
NextStartSkipped(path, i) == At(path, i + 1)

\* start_station = path[i]
NextStart(path, i) == At(path, i)

\* the loop of lines 70-83 and the final segment of lines 86-91; line_of[k]
\* is what get_connecting_line returned for the k-th edge of the path
RECURSIVE FormatLoop(_, _, _, _, _, _)
FormatLoop(path, line_of, i, start_station, current_line, route_steps) ==
    IF i >= Len(path) - 1
    THEN Append(route_steps,
                RouteStep(path, start_station, Last(path), current_line, Len(path) - 1))
    ELSE LET next_line == At(line_of, i)
         IN IF next_line # current_line
            THEN FormatLoop(path, line_of, i + 1, NextStart(path, i), next_line,
                     Append(route_steps,
                            RouteStep(path, start_station, At(path, i), current_line,
                                      ListIndex(path, At(path, i)))))
            ELSE FormatLoop(path, line_of, i + 1, start_station, current_line,
                            route_steps)

format_route_details(path, line_of) ==
    IF Len(path) < 2 THEN <<>>
    ELSE FormatLoop(path, line_of, 1, At(path, 0), At(line_of, 0), <<>>)

NoRouteData ==
    [kind |-> "none", error |-> "", source |-> 0, destination |-> 0,
     total_stations |-> 0, interchanges |-> 0, path |-> <<>>, steps |-> <<>>,
     lines |-> <<>>]

\* {"error": f"No route found between {source} and {destination}"}
ErrorData(source, destination) ==
    [kind |-> "error", error |-> "No route found between", source |-> source,
     destination |-> destination, total_stations |-> 0, interchanges |-> 0,
     path |-> <<>>, steps |-> <<>>, lines |-> <<>>]

\* total_stations counts the hops of the path
RouteDataCountingHops(source, destination, path, steps) ==
    [kind |-> "route", error |-> "", source |-> source, destination |-> destination,
     total_stations |-> Len(path) - 1, interchanges |-> Len(steps) - 1,
     path |-> path, steps |-> steps, lines |-> <<>>]

RouteData(source, destination, path, steps) ==
    [kind |-> "route", error |-> "", source |-> source, destination |-> destination,
     total_stations |-> Len(path), interchanges |-> Len(steps) - 1,
     path |-> path, steps |-> steps, lines |-> <<>>]

\* the list format_route_details returned for a path handed to it directly;
\* lines keeps what get_connecting_line answered for each edge of the path
StepsData(path, line_of) ==
    [kind |-> "steps", error |-> "", source |-> 0, destination |-> 0,
     total_stations |-> 0,
     interchanges |-> 0, path |-> path,
     steps |-> format_route_details(path, line_of), lines |-> line_of]

\* dmrc_routing.find_route: the results it can return
find_route(g, lookup, source, destination) ==
    LET path == find_shortest_path_bfs(source, destination, g)
    IN IF path.none \/ path.path = <<>> THEN {ErrorData(source, destination)}
       ELSE {RouteData(source, destination, path.path,
                       format_route_details(path.path, line_of)) :
                line_of \in ConnectingLineChoices(lookup, path.path)}

----------------------------------------------------------------------------
(* The two entry points as one state machine: main.py (StationLoader, *)
(* /route) and app.py (METRO_GRAPH, dmrc_routing.find_route)          *)

\* all sequences over S with lo..hi elements
SeqsOver(S, lo, hi) == UNION {[1..n -> S] : n \in lo..hi}

ShortNames == 1..NumShort

LoaderNames == 1..LongLen

LongLine == [i \in 1..LongLen |-> i]

\* a line that comes back through its first station
LoopLine == <<1, 2, 1, 3>>

FirstLines == SeqsOver(ShortNames, 1, MaxShortLen) \cup {LongLine, LoopLine}

SecondLines == SeqsOver(ShortNames, 1, MaxShortLen)

\* what load() leaves in lines_index: no, one or two lines, none of them
\* empty; the long line is the first or the second of two
LinesIndexes ==
    {<<>>} \cup {<<<<1, a>>>> : a \in FirstLines}
           \cup {<<<<1, a>>, <<2, b>>>> : a \in FirstLines, b \in SecondLines}
           \cup {<<<<1, a>>, <<2, LongLine>>>> : a \in SecondLines}

\* a station with coordinates lies at latitude 2 * name, longitude 0
Located(name) == [coordinates |-> [lat |-> <<2 * name>>, lon |-> <<0>>]]

\* the registry a choice of what the CSV says of each station leaves
Registry(short) ==
    LET said(n) == IF n \in ShortNames THEN short[n] ELSE "bare"
    IN [n \in {m \in LoaderNames : said(m) # "absent"} |->
            IF said(n) = "located" THEN Located(n) ELSE NoCoordinates]

\* what load() leaves in stations: a short-line station is absent from the
\* CSV, listed without coordinates, or listed with them; the others are
\* listed without coordinates
Registries ==
    {Registry(short) : short \in [ShortNames -> {"absent", "bare", "located"}]}

\* a name that is in no line
UnknownName == LongLen + 1

DmrcNames == 1..NumDmrcStations

\* a name that is in no line of METRO_NETWORKS
UnknownDmrcName == NumDmrcStations + 1

DmrcLines == SeqsOver(DmrcNames, 1, MaxDmrcLen)

\* METRO_NETWORKS: one or two lines
Networks ==
    {<<<<1, a>>>> : a \in DmrcLines}
        \cup {<<<<1, a>>, <<2, b>>>> : a \in DmrcLines, b \in DmrcLines}

\* the valid paths of n stations: consecutive stations are adjacent in g,
\* a station may come back
RECURSIVE Walks(_, _)
Walks(g, n) ==
    IF n = 1 THEN {<<a>> : a \in DOMAIN g}
    ELSE {Append(p, v) : p \in Walks(g, n - 1), v \in DOMAIN g} \cap
         {p \in [1..n -> DOMAIN g] : HasEdge(g, p[n - 1], p[n])}

\* whether the rows of the stations CSV can name lines, given what load()
\* left in lines_index: without a line no row named one; the lines there are
\* come from the rows or from the lines-routes file alone
RowLines(li) == IF li = <<>> THEN {FALSE} ELSE BOOLEAN

\* neither entry point has been imported
MetroParked ==
    /\ process = "none"
    /\ reachable = NotAsked
    /\ row_lines = FALSE
    /\ loading = NotLoading
    /\ query = NoQuery
    /\ rebuild = NoRebuild
    /\ stations = <<>>
    /\ lines_index = <<>>
    /\ loader_graph = EmptyGraph
    /\ METRO_DATA = <<>>
    /\ route_response = NoResponse
    /\ METRO_NETWORKS = <<>>
    /\ METRO_GRAPH = EmptyGraph
    /\ STATION_LINE_LOOKUP = <<>>
    /\ route_data = NoRouteData

MetroInit ==
    /\ MetroParked
    /\ graph = <<>>
    /\ call = [op |-> "idle", start |-> 0, goal |-> 0, max_length |-> 0]
    /\ ret = NoneRet
    /\ run = NotRunning
    /\ metroKeys = <<>>
    /\ vname = [kind |-> "idle", val |-> <<>>, num |-> 0]
    /\ vret = [valid |-> FALSE, some |-> FALSE, name |-> <<>>]

\* import main + startup_event: StationLoader(csv) loads the registry and
\* the lines, builds its graph, and METRO_DATA is synced from lines_index
StartMain ==
    /\ process = "none"
    /\ process' = "main"
    /\ \E li \in LinesIndexes, st \in Registries :
        /\ stations' = st
        /\ lines_index' = li
        /\ loader_graph' = _build_graph(li, st, EmptyGraph)
        /\ METRO_DATA' = SyncMetroData(li)
        /\ row_lines' \in RowLines(li)
    /\ loading' = NotLoading
    /\ route_response' = NoResponse
    /\ query' = NoQuery
    /\ UNCHANGED <<appVars, reachable, rebuild, routeVars, nameVars>>

\* POST /route
PostRoute ==
    /\ process = "main"
    /\ route_response = NoResponse
    /\ ~reachable.asked
    /\ rebuild = NoRebuild
    /\ \E from_station \in ShortNames \cup {UnknownName},
          to_station \in LoaderNames \cup {UnknownName} :
            /\ query' = [from_station |-> from_station, to_station |-> to_station]
            /\ route_response' \in main_find_route(METRO_DATA, loader_graph,
                                                   from_station, to_station)
    /\ UNCHANGED <<process, stations, lines_index, loader_graph, METRO_DATA,
                   row_lines, loading,
                   appVars, reachable, rebuild, routeVars, nameVars>>

\* the response is sent
SendResponse ==
    /\ process = "main"
    /\ route_response # NoResponse
    /\ route_response' = NoResponse
    /\ query' = NoQuery
    /\ UNCHANGED <<process, stations, lines_index, loader_graph, METRO_DATA,
                   row_lines, loading,
                   appVars, reachable, rebuild, routeVars, nameVars>>

\* import app: dmrc_dataset, dmrc_graph and dmrc_routing set their globals
StartApp ==
    /\ process = "none"
    /\ process' = "app"
    /\ \E networks \in Networks :
        /\ METRO_NETWORKS' = networks
        /\ METRO_GRAPH' = build_metro_graph(generate_dmrc_dataset(networks))
        /\ STATION_LINE_LOOKUP' = get_station_line_map(generate_dmrc_dataset(networks))
    /\ route_data' = NoRouteData
    /\ UNCHANGED <<mainVars, reachable, rebuild, routeVars, nameVars>>

\* chat_api: route_data = find_route(src_name, dst_name)
ChatRoute ==
    /\ process = "app"
    /\ route_data = NoRouteData
    /\ ~reachable.asked
    /\ rebuild = NoRebuild
    /\ \E source, destination \in DmrcNames \cup {UnknownDmrcName} :
            route_data' \in find_route(METRO_GRAPH, STATION_LINE_LOOKUP,
                                      source, destination)
    /\ UNCHANGED <<process, METRO_NETWORKS, METRO_GRAPH, STATION_LINE_LOOKUP,
                   mainVars, reachable, rebuild, routeVars, nameVars>>

\* format_route_details(path) on a valid path of METRO_GRAPH
FormatPath ==
    /\ process = "app"
    /\ route_data = NoRouteData
    /\ ~reachable.asked
    /\ rebuild = NoRebuild
    /\ \E n \in 1..MaxWalkLen : \E path \in Walks(METRO_GRAPH, n) :
        \E line_of \in ConnectingLineChoices(STATION_LINE_LOOKUP, path) :
            route_data' = StepsData(path, line_of)
    /\ UNCHANGED <<process, METRO_NETWORKS, METRO_GRAPH, STATION_LINE_LOOKUP,
                   mainVars, reachable, rebuild, routeVars, nameVars>>

\* the chat reply is sent
ChatReply ==
    /\ process = "app"
    /\ route_data # NoRouteData
    /\ route_data' = NoRouteData
    /\ UNCHANGED <<process, METRO_NETWORKS, METRO_GRAPH, STATION_LINE_LOOKUP,
                   mainVars, reachable, rebuild, routeVars, nameVars>>

\* nothing is waiting for an answer
Quiet ==
    /\ route_response = NoResponse
    /\ route_data = NoRouteData
    /\ ~reachable.asked
    /\ rebuild = NoRebuild

\* STATION_LOADER._build_graph() once more, on the same loader: self.graph is
\* not cleared, the edges are written over the ones that are there
BuildAgain ==
    /\ process = "main"
    /\ Quiet
    /\ loader_graph' = _build_graph(lines_index, stations, loader_graph)
    /\ rebuild' = [ran |-> TRUE, raised |-> FALSE]
    /\ UNCHANGED <<process, stations, lines_index, METRO_DATA, route_response,
                   query, row_lines, loading,
                   appVars, reachable, routeVars, nameVars>>

\* STATION_LOADER.load() once more, on the same loader and the same files:
\* every station is registered already, and its "lines" is the sorted list
\* the first load() left, so the first row that names a line raises
\* AttributeError at lines.add before anything is changed; with no such row
\* the lines-routes file gives lines_index the same lists again and the
\* graph is built over the one that is there
LoadAgain ==
    /\ process = "main"
    /\ Quiet
    /\ IF row_lines
       THEN /\ rebuild' = [ran |-> TRUE, raised |-> TRUE]
            /\ UNCHANGED loader_graph
       ELSE /\ rebuild' = [ran |-> TRUE, raised |-> FALSE]
            /\ loader_graph' = _build_graph(lines_index, stations, loader_graph)
    /\ UNCHANGED <<process, stations, lines_index, METRO_DATA, route_response,
                   query, row_lines, loading,
                   appVars, reachable, routeVars, nameVars>>

\* build_metro_graph(dataset) once more, on the same dataset
BuildMetroAgain ==
    /\ process = "app"
    /\ Quiet
    /\ METRO_GRAPH' = build_metro_graph(generate_dmrc_dataset(METRO_NETWORKS))
    /\ rebuild' = [ran |-> TRUE, raised |-> FALSE]
    /\ UNCHANGED <<process, METRO_NETWORKS, STATION_LINE_LOOKUP, route_data,
                   mainVars, reachable, routeVars, nameVars>>

\* the caller has looked at the graph the second run left
RebuildSeen ==
    /\ rebuild.ran
    /\ rebuild' = NoRebuild
    /\ UNCHANGED <<process, mainVars, appVars, reachable, routeVars, nameVars>>

\* the graph the started entry point has built
BuiltGraph == IF process = "main" THEN loader_graph ELSE METRO_GRAPH

\* the names a caller may pass: those of the short lines and one that is in
\* no line
QueryNames ==
    IF process = "main" THEN ShortNames \cup {UnknownName}
    ELSE DmrcNames \cup {UnknownDmrcName}

\* is_reachable(loader.graph, from_station, to_station), and the same call
\* on METRO_GRAPH
AskReachable ==
    /\ process # "none"
    /\ ~reachable.asked
    /\ rebuild = NoRebuild
    /\ route_response = NoResponse
    /\ route_data = NoRouteData
    /\ \E start \in QueryNames, goal \in QueryNames :
            reachable' = [asked |-> TRUE, start |-> start, goal |-> goal,
                          value |-> is_reachable(BuiltGraph, start, goal)]
    /\ UNCHANGED <<process, mainVars, appVars, rebuild, routeVars, nameVars>>

\* the caller has used the answer
ReachableDone ==
    /\ reachable.asked
    /\ reachable' = NotAsked
    /\ UNCHANGED <<process, mainVars, appVars, rebuild, routeVars, nameVars>>

MetroNext ==
    \/ StartMain
    \/ PostRoute
    \/ SendResponse
    \/ StartApp
    \/ ChatRoute
    \/ FormatPath
    \/ ChatReply
    \/ AskReachable
    \/ ReachableDone
    \/ BuildAgain
    \/ LoadAgain
    \/ BuildMetroAgain
    \/ RebuildSeen

SpecMetro == MetroInit /\ [][MetroNext]_vars

----------------------------------------------------------------------------
(* Claims about the segmenters and the graph builders *)

\* the position in the path at which the k-th step ends, counted from the
\* stop counts of the steps
RECURSIVE EndPosition(_, _)
EndPosition(steps, k) ==
    IF k = 0 THEN 1 ELSE EndPosition(steps, k - 1) + steps[k].stops

\* the steps of format_route_details cut the path into consecutive stretches
StepsCover(path, steps) ==
    /\ Len(steps) >= 1
    /\ steps[1].start = path[1]
    /\ steps[Len(steps)].end = Last(path)
    /\ EndPosition(steps, Len(steps)) = Len(path)
    /\ \A k \in 1..Len(steps) :
        /\ steps[k].stops >= 1
        /\ EndPosition(steps, k) <= Len(path)
        /\ path[EndPosition(steps, k - 1)] = steps[k].start
        /\ path[EndPosition(steps, k)] = steps[k].end
        /\ k < Len(steps) => steps[k].end = steps[k + 1].start

\* the segments' station lists joined, each boundary station taken once
RECURSIVE JoinSegments(_)
JoinSegments(segments) ==
    IF segments = <<>> THEN <<>>
    ELSE IF Len(segments) = 1 THEN segments[1].stations
    ELSE segments[1].stations \o Tail(JoinSegments(Tail(segments)))

\* the segments of main.find_route cut the path into consecutive stretches
SegmentsCover(path, segments) ==
    /\ Len(segments) >= 1
    /\ segments[1].start_station = path[1]
    /\ segments[Len(segments)].end_station = Last(path)
    /\ JoinSegments(segments) = path
    /\ \A k \in 1..Len(segments) :
        /\ Len(segments[k].stations) >= 2
        /\ segments[k].start_station = Head(segments[k].stations)
        /\ segments[k].end_station = Last(segments[k].stations)
        /\ k < Len(segments) =>
                segments[k].end_station = segments[k + 1].start_station

\* C5: for every path of at least two stations that the fewest-hops search
\* returned, the segments of format_route_details and of main.find_route
\* cover the path with no gaps or overlaps: the first starts at the path's
\* first station, each ends where the next starts, the last ends at the
\* path's last station, and joined they give back the path.
C5_SegmentsCoverThePath ==
    /\ (route_data.kind = "route" /\ Len(route_data.path) >= 2)
            => StepsCover(route_data.path, route_data.steps)
    /\ (route_response.status = 200 /\ Len(route_response.stations) >= 2)
            => SegmentsCover(route_response.stations, route_response.segments)

\* a route of app.py with a change of line after a stretch of two stops
C5_Witness ==
    /\ route_data.kind = "route"
    /\ Len(route_data.path) = 4
    /\ Len(route_data.steps) = 2
    /\ route_data.steps[1].stops = 2
    /\ route_data.steps[1].line # route_data.steps[2].line

Symmetric(g) ==
    \A a \in DOMAIN g : \A i \in 1..Len(g[a]) :
        LET b == g[a][i][1]
            w == g[a][i][2]
        IN HasEdge(g, b, a) /\ Weight(g, b, a) = w

\* C9: in the graph of StationLoader and in the graph of build_metro_graph,
\* whenever a has neighbour b with weight w, b has neighbour a with exactly
\* the weight w, also when several lines add the same pair.
C9_EdgesAreSymmetric == Symmetric(loader_graph) /\ Symmetric(METRO_GRAPH)

\* positions i, i+1 of a station list hold a and b
ConsecutiveIn(list, a, b) ==
    \E i \in 1..(Len(list) - 1) : list[i] = a /\ list[i + 1] = b

\* two lines of the loader add the same pair, with a haversine weight
C9_Witness ==
    /\ process = "main"
    /\ Len(lines_index) = 2
    /\ \E a, b \in DOMAIN loader_graph :
        /\ a # b
        /\ ConsecutiveIn(lines_index[1][2], a, b)
        /\ ConsecutiveIn(lines_index[2][2], b, a)
        /\ HasEdge(loader_graph, a, b)
        /\ Weight(loader_graph, a, b) > DefaultDistance

\* the station is registered with a latitude and a longitude
HasCoordinates(name) ==
    /\ name \in DOMAIN stations
    /\ stations[name].coordinates.lat # <<>>
    /\ stations[name].coordinates.lon # <<>>

\* the stations of a list in the order of their first occurrence
FirstOccurrences(list) ==
    LET first == {i \in 1..Len(list) : \A j \in 1..(i - 1) : list[j] # list[i]}
        nth(n) == CHOOSE i \in first : Cardinality({j \in first : j < i}) = n - 1
    IN [n \in 1..Cardinality(first) |-> list[nth(n)]]

LocatedCount(list) == Cardinality({s \in SeqToSet(list) : HasCoordinates(s)})

\* the line has enough stations with coordinates for its sequence to be used
EnoughCoordinates(list) ==
    /\ Len(FirstOccurrences(list)) >= 2
    /\ LocatedCount(list) >= 2
    /\ LocatedCount(list) >= Len(FirstOccurrences(list)) \div 3

Joined(a, b) == HasEdge(loader_graph, a, b) /\ HasEdge(loader_graph, b, a)

----------------------------------------------------------------------------
(* Claims about the vertices of the built graphs *)

\* the stations named in the lines of a line -> station list dict
NamedStations(lines) == UNION {SeqToSet(lines[k][2]) : k \in 1..Len(lines)}

----------------------------------------------------------------------------
(* Claims about the path enumeration and reachability, under SpecRoute *)

\* the simple paths of exactly n vertices that leave a along edges of g
RECURSIVE SimplePathsFrom(_, _, _)
SimplePathsFrom(g, a, n) ==
    IF n = 1 THEN {<<a>>}
    ELSE UNION {{Append(p, v) :
                    v \in SeqToSet(NeighborKeys(g, Last(p))) \ SeqToSet(p)} :
                p \in SimplePathsFrom(g, a, n - 1)}

\* the simple paths from a to b with at most max_length vertices
SimplePaths(g, a, b, max_length) ==
    UNION {{p \in SimplePathsFrom(g, a, n) : Last(p) = b} : n \in 1..max_length}

\* C12: for vertices source and destination and any max_length,
\* get_all_paths_limited returns exactly the simple paths from source to
\* destination with at most max_length vertices, each of them once.
C12_ExactlyTheSimplePaths ==
    (call.op = "get_all_paths_limited" /\ BothInGraph) =>
        /\ SeqToSet(ret.paths)
                = SimplePaths(graph, call.start, call.goal, call.max_length)
        /\ \A i, j \in 1..Len(ret.paths) : ret.paths[i] = ret.paths[j] => i = j

\* several paths are returned, and a longer simple path is left out
C12_Witness ==
    /\ call.op = "get_all_paths_limited"
    /\ BothInGraph
    /\ Len(ret.paths) >= 2
    /\ \E i \in 1..Len(ret.paths) : Len(ret.paths[i]) = call.max_length
    /\ SimplePaths(graph, call.start, call.goal, call.max_length + 1)
            # SeqToSet(ret.paths)

\* C13: on every graph the two builders produce, is_reachable gives the same
\* answer for (a, b) as for (b, a), whatever the two names are.
C13_ReachabilityIsSymmetric ==
    reachable.asked =>
        reachable.value = is_reachable(BuiltGraph, reachable.goal, reachable.start)

\* a reachable pair of distinct stations and the query on it answered
C13_Witness ==
    /\ reachable.asked
    /\ reachable.value
    /\ reachable.start # reachable.goal
    /\ ~HasEdge(BuiltGraph, reachable.start, reachable.goal)

\* every neighbour is a key and every edge is stored in both directions
Undirected(g) ==
    /\ \A a \in DOMAIN g : SeqToSet(NeighborKeys(g, a)) \subseteq DOMAIN g
    /\ \A a, b \in DOMAIN g : HasEdge(g, a, b) <=> HasEdge(g, b, a)

\* C14: on an undirected graph find_nearest_common_station(graph, a, b)
\* returns a station exactly when a and b are both vertices and b is
\* reachable from a (a = b included), and None exactly otherwise; a returned
\* station is reachable from both a and b.
C14_CommonStationIffReachable ==
    (call.op = "find_nearest_common_station" /\ Undirected(graph)) =>
        /\ ~ret.none <=> (BothInGraph /\ Reachable(graph, call.start, call.goal))
        /\ ~ret.none => /\ Reachable(graph, call.start, ret.station)
                        /\ Reachable(graph, call.goal, ret.station)

\* C15: the route result for a valid station to itself (a path of one station)
\* has an empty list of segments and an interchange count of 0.
C15_OneStationRouteHasNoInterchange ==
    (process = "app" /\ route_data.kind = "route" /\ Len(route_data.path) = 1) =>
        /\ route_data.steps = <<>>
        /\ route_data.interchanges = 0

\* the lengths of the maximal stretches of equal values of s, in order
RECURSIVE RunLengths(_)
RunLengths(s) ==
    IF s = <<>> THEN <<>>
    ELSE LET differ == {i \in 1..Len(s) : s[i] # s[1]}
             n == IF differ = {} THEN Len(s) ELSE Min(differ) - 1
         IN <<n>> \o RunLengths(SubSeq(s, n + 1, Len(s)))

\* get_connecting_line answered alike whenever it was asked about the same
\* two stations
SameLineForSamePair(path, line_of) ==
    \A i, j \in 1..Len(line_of) :
        {path[i], path[i + 1]} = {path[j], path[j + 1]} => line_of[i] = line_of[j]

RECURSIVE SumOfStops(_)
SumOfStops(steps) ==
    IF steps = <<>> THEN 0 ELSE Head(steps).stops + SumOfStops(Tail(steps))

\* C16: for every valid path handed to format_route_details (consecutive
\* stations adjacent, stations may repeat), the stop count of each segment is
\* the number of path edges inside the segment, so the stop counts sum to
\* len(path) - 1.
C16_StopsCountTheEdges ==
    (route_data.kind = "steps" /\ Len(route_data.path) >= 2
        /\ SameLineForSamePair(route_data.path, route_data.lines)) =>
        LET edges == RunLengths(route_data.lines)
        IN /\ Len(route_data.steps) = Len(edges)
           /\ \A k \in 1..Len(edges) : route_data.steps[k].stops = edges[k]
           /\ SumOfStops(route_data.steps) = Len(route_data.path) - 1

\* the lines (of a list of <<line, stations>> pairs) that hold both stations
CommonLines(lines, a, b) ==
    {lines[k][1] : k \in {j \in 1..Len(lines) : {a, b} \subseteq SeqToSet(lines[j][2])}}

\* the lines on which the two stations follow one another
AdjacentLines(lines, a, b) ==
    {lines[k][1] : k \in {j \in 1..Len(lines) :
        ConsecutiveIn(lines[j][2], a, b) \/ ConsecutiveIn(lines[j][2], b, a)}}

\* a line on which the pair is adjacent whenever there is one, and a merely
\* common line only when there is none
PrefersAdjacent(lines, a, b, line) ==
    IF AdjacentLines(lines, a, b) # {} THEN line \in AdjacentLines(lines, a, b)
    ELSE CommonLines(lines, a, b) # {} => line \in CommonLines(lines, a, b)

\* the line main.find_route gave to each edge of the path, read off the segments
RECURSIVE LinesOfSegments(_)
LinesOfSegments(segments) ==
    IF segments = <<>> THEN <<>>
    ELSE [i \in 1..(Len(Head(segments).stations) - 1) |-> Head(segments).line]
            \o LinesOfSegments(Tail(segments))

\* the segmenter of main.py prefers a line on which the pair is adjacent
MainPrefersAdjacent ==
    (process = "main" /\ route_response.status = 200) =>
        LET path == route_response.stations
            line_of == LinesOfSegments(route_response.segments)
        IN /\ Len(line_of) = Len(path) - 1
           /\ \A i \in 1..Len(line_of) :
                /\ line_of[i] # <<>>
                /\ PrefersAdjacent(METRO_DATA, path[i], path[i + 1], line_of[i][1])

\* C17: for each consecutive pair of the path the segmenter assigns a line
\* that holds both stations and on which they are adjacent in the line's
\* sequence whenever such a line exists, and a merely common line only when
\* no common line has them adjacent (get_connecting_line and main.find_route).
C17_AdjacentLineIsPreferred ==
    /\ MainPrefersAdjacent
    /\ (process = "app" /\ route_data.kind = "steps") =>
            \A i \in 1..Len(route_data.lines) :
                route_data.path[i] # route_data.path[i + 1] =>
                    PrefersAdjacent(METRO_NETWORKS, route_data.path[i],
                                    route_data.path[i + 1], route_data.lines[i])

\* the same vertices, the same edges and the same weights
SameGraph(g, h) ==
    /\ DOMAIN g = DOMAIN h
    /\ \A a \in DOMAIN g : SeqToSet(g[a]) = SeqToSet(h[a])

\* the graph the second run left is the graph of the first build
SameAsFirstBuild ==
    /\ process = "main" =>
            SameGraph(loader_graph, _build_graph(lines_index, stations, EmptyGraph))
    /\ process = "app" =>
            SameGraph(METRO_GRAPH,
                      build_metro_graph(generate_dmrc_dataset(METRO_NETWORKS)))

\* C18: running the build a second time on identical inputs
\* (build_metro_graph on the same dataset, _build_graph or load on the same
\* loader and the same files) yields a graph with the same vertices, edges
\* and weights as the first run.
C18_SecondBuildYieldsTheSameGraph ==
    rebuild.ran => (~rebuild.raised /\ SameAsFirstBuild)

\* the stations a line of two stations or more names although the registry
\* does not hold them
Undeclared ==
    UNION {SeqToSet(lines_index[k][2]) \ DOMAIN stations :
            k \in {j \in 1..Len(lines_index) : Len(lines_index[j][2]) >= 2}}

\* C19: when a line names a station that was never declared in the station
\* registry, the build fails with an error: it never completes and hands the
\* path finders a graph from which that line's edges are missing. (process is
\* "main" only once the build has completed and the graph is in use.)
C19_BuildFailsOnUndeclaredStation ==
    process = "main" => Undeclared = {}

\* C20: dmrc_routing.find_route returns (it does not raise) a result with an
\* error message and no path whenever the source or the destination is not a
\* station of the graph, and in every route it returns total_stations is the
\* number of stations of the path.
C20_UnknownNamesGiveAnError ==
    (process = "app" /\ route_data.kind \in {"route", "error"}) =>
        /\ ({route_data.source, route_data.destination} \subseteq DOMAIN METRO_GRAPH
                \/ (route_data.kind = "error" /\ route_data.path = <<>>))
        /\ route_data.kind = "route" =>
                route_data.total_stations = Len(route_data.path)

\* a station of the graph asked for a route to a name that is no station
C20_Witness ==
    /\ process = "app"
    /\ route_data.kind = "error"
    /\ route_data.source \in DOMAIN METRO_GRAPH
    /\ route_data.destination \notin DOMAIN METRO_GRAPH

\* what a caller of dmrc_routing.find_route can read off a result without
\* the two names it passed
RouteOutcome(r) == [kind |-> r.kind, error |-> r.error]

\* the outcomes of dmrc_routing.find_route for the pairs with a name that is
\* no station of METRO_GRAPH
UnknownStationOutcomes ==
    LET names == DmrcNames \cup {UnknownDmrcName}
    IN UNION {{RouteOutcome(r) :
                r \in find_route(METRO_GRAPH, STATION_LINE_LOOKUP, s, d)} :
              s \in {UnknownDmrcName} \cup (names \ DOMAIN METRO_GRAPH), d \in names}
       \cup
       UNION {{RouteOutcome(r) :
                r \in find_route(METRO_GRAPH, STATION_LINE_LOOKUP, s, d)} :
              s \in names, d \in {UnknownDmrcName} \cup (names \ DOMAIN METRO_GRAPH)}

\* what a caller of POST /route can read off an answer
ResponseOutcome(r) == [status |-> r.status, detail |-> r.detail]

\* the outcomes of POST /route for the pairs with a name METRO_DATA does not know
UnknownStationResponses ==
    LET names == LoaderNames \cup {UnknownName}
    IN UNION {{ResponseOutcome(r) :
                r \in main_find_route(METRO_DATA, loader_graph, s, d)} :
              s \in {UnknownName}, d \in names}
       \cup
       UNION {{ResponseOutcome(r) :
                r \in main_find_route(METRO_DATA, loader_graph, s, d)} :
              s \in STATION_LOOKUP(METRO_DATA), d \in {UnknownName}}

\* two stations METRO_DATA knows, with no path between them in the loader graph
QueryIsUnreachable ==
    /\ route_response # NoResponse
    /\ {query.from_station, query.to_station} \subseteq STATION_LOOKUP(METRO_DATA)
    /\ query.from_station # query.to_station
    /\ ~(/\ {query.from_station, query.to_station} \subseteq DOMAIN loader_graph
         /\ Reachable(loader_graph, query.from_station, query.to_station))

\* POST /route tells an unreachable pair from an unknown station
MainTellsUnreachableFromUnknown ==
    (process = "main" /\ QueryIsUnreachable) =>
        ResponseOutcome(route_response) \notin UnknownStationResponses

\* C21: an unreachable pair of valid stations is reported as "no route", an
\* outcome the caller can tell apart from the unknown-station outcome:
\* neither dmrc_routing.find_route nor main.find_route gives for it the
\* result it gives for a pair with an unknown station.
C21_NoRouteIsNotUnknownStation ==
    /\ MainTellsUnreachableFromUnknown
    /\ (process = "app" /\ route_data.kind = "error"
            /\ {route_data.source, route_data.destination} \subseteq DOMAIN METRO_GRAPH) =>
                RouteOutcome(route_data) \notin UnknownStationOutcomes

\* the fraction r1 is at least the fraction r2
AtLeast(r1, r2) == r1[1] * r2[2] >= r2[1] * r1[2]

Reverse(q) == [i \in 1..Len(q) |-> q[Len(q) + 1 - i]]

\* validate_station got as far as its fuzzy step
FuzzyStepRan ==
    /\ vname # NoInput
    /\ Truthy(vname)
    /\ \A i \in 1..Len(metroKeys) :
            Lower(metroKeys[i]) # Lower(normalize_station_name(vname))

----------------------------------------------------------------------------
(* STATION_LOADER.load() run again while POST /route is served: the loader  *)
(* keeps its graph object and writes the edges into it line by line         *)

\* the lines a reload may find in the lines-routes file
ReloadLines == {l \in SecondLines : Len(l) = 2 /\ l[1] # l[2]}

\* the lines-routes file when the loader is reloaded: two lines
ReloadIndexes == {<<<<1, a>>, <<2, b>>>> : a \in ReloadLines, b \in ReloadLines}

\* the lines the process was started with: a line of one or two short
\* stations and a line of one
StartIndexes ==
    {<<<<1, a>>, <<2, b>>>> :
        a \in SecondLines, b \in {l \in SecondLines : Len(l) = 1}}

\* the stations CSV lists every short station with its coordinates and names
\* no line
EveryStationLocated == Registry([n \in ShortNames |-> "located"])

\* _load_lines_routes: self.lines_index[line] = [...] for every line of the
\* file; the lines the file does not name stay as they are
LinesAfterReload(li, file) ==
    [k \in 1..Len(li) |->
        IF \E j \in 1..Len(file) : file[j][1] = li[k][1]
        THEN <<li[k][1],
               file[CHOOSE j \in 1..Len(file) : file[j][1] = li[k][1]][2]>>
        ELSE li[k]]
    \o SelectSeq(file, LAMBDA f : \A k \in 1..Len(li) : li[k][1] # f[1])

\* main was imported and started: the loader is built from a stations CSV
\* without lines and a lines-routes file
ReloadInit ==
    /\ process = "main"
    /\ stations = EveryStationLocated
    /\ lines_index \in StartIndexes
    /\ loader_graph = _build_graph(lines_index, stations, EmptyGraph)
    /\ METRO_DATA = SyncMetroData(lines_index)
    /\ route_response = NoResponse
    /\ query = NoQuery
    /\ row_lines = FALSE
    /\ loading = NotLoading
    /\ reachable = NotAsked
    /\ rebuild = NoRebuild
    /\ METRO_NETWORKS = <<>>
    /\ METRO_GRAPH = EmptyGraph
    /\ STATION_LINE_LOOKUP = <<>>
    /\ route_data = NoRouteData
    /\ graph = <<>>
    /\ call = [op |-> "idle", start |-> 0, goal |-> 0, max_length |-> 0]
    /\ ret = NoneRet
    /\ run = NotRunning
    /\ NamesParked

\* load() up to the call of _build_graph, run once after the lines-routes
\* file was rewritten: the stations CSV is read again (every station is
\* registered already) and the lines of the file replace these of
\* lines_index; self.graph is the object it was
BeginLoad ==
    /\ process = "main"
    /\ ~loading.running
    /\ METRO_DATA = SyncMetroData(lines_index)
    /\ route_response = NoResponse
    /\ \E file \in ReloadIndexes :
        lines_index' = LinesAfterReload(lines_index, file)
    /\ loading' = [running |-> TRUE, next |-> 1, before |-> loader_graph]
    /\ UNCHANGED <<process, stations, loader_graph, METRO_DATA, route_response,
                   query, row_lines, appVars, reachable, rebuild, routeVars,
                   nameVars>>

\* _build_graph: one iteration of the loop over self.lines_index.items(),
\* which writes the edges of that line into self.graph
BuildStep ==
    /\ loading.running
    /\ loading.next <= Len(lines_index)
    /\ route_response = NoResponse
    /\ loader_graph' = BuildLine(stations, loader_graph,
                                 lines_index[loading.next][2])
    /\ loading' = [loading EXCEPT !.next = @ + 1]
    /\ UNCHANGED <<process, stations, lines_index, METRO_DATA, route_response,
                   query, row_lines, appVars, reachable, rebuild, routeVars,
                   nameVars>>

\* _build_graph has taken every line: load() returns
EndLoad ==
    /\ loading.running
    /\ loading.next > Len(lines_index)
    /\ loading' = NotLoading
    /\ UNCHANGED <<process, stations, lines_index, loader_graph, METRO_DATA,
                   route_response, query, row_lines, appVars, reachable,
                   rebuild, routeVars, nameVars>>

\* POST /route is served by a worker thread at any time, a reload by another
ReloadNext ==
    \/ BeginLoad
    \/ BuildStep
    \/ EndLoad
    \/ PostRoute
    \/ SendResponse

SpecReload == ReloadInit /\ [][ReloadNext]_vars

\* the graph before the running reload, and the graph it will have left
GraphBeforeReload == IF loading.running THEN loading.before ELSE loader_graph

GraphAfterReload ==
    IF loading.running
    THEN _build_graph(lines_index, stations, loading.before)
    ELSE loader_graph

\* the path find_route gets for the query when STATION_LOADER.graph is g
PathOn(g) == bfs_shortest_path(g, query.from_station, query.to_station)

\* find_route has come to its call of routing.bfs_shortest_path: both names
\* of the query were resolved and they differ
PathWasSearched ==
    /\ route_response # NoResponse
    /\ route_response.detail \notin {"From station not found",
                                      "To station not found",
                                      "From and To stations are the same"}

\* C24: a query that runs while the graph is rebuilt sees the complete old
\* data or the complete new data, never a partially rebuilt graph: the path
\* POST /route finds is the path of the graph before the reload or the path
\* of the graph the reload leaves
C24_QuerySeesOldOrNewGraph ==
    PathWasSearched =>
        PathOn(loader_graph) \in {PathOn(GraphBeforeReload),
                                  PathOn(GraphAfterReload)}

----------------------------------------------------------------------------
(* routing.dijkstra run one iteration of its while loop at a time *)

\* dijkstra(graph, start, goal) up to the first test of the while loop: the
\* early returns, then priority_queue = [(0.0, start, [start])], seen = {}
StartDijkstra(start, goal) ==
    /\ call = Idle
    /\ call' = [op |-> "dijkstra", start |-> start, goal |-> goal,
                max_length |-> 0]
    /\ run' = IF start = goal
              THEN [NotRunning EXCEPT !.done = TRUE,
                                      !.ret = DistPathRet(0, <<start>>)]
              ELSE IF ~InGraph(graph, start) \/ ~InGraph(graph, goal)
              THEN [NotRunning EXCEPT !.done = TRUE]
              ELSE DijkstraStart(start)
    /\ UNCHANGED <<graph, ret, nameVars, metroVars>>

\* one iteration of `while priority_queue:`, or the `return None` after it
DijkstraStep ==
    /\ call.op = "dijkstra"
    /\ ~run.done
    /\ run' = DijkstraIter(graph, call.goal, run)
    /\ UNCHANGED <<graph, call, ret, nameVars, metroVars>>

----------------------------------------------------------------------------
(* the other searches of routing.py, run one iteration of their loop at a   *)
(* time                                                                     *)

\* bfs_shortest_path after `queue = deque([[start]])`; enqueued lists the
\* last stations of the paths put on the queue, in the order they were put
BfsStart(start) ==
    [queue |-> <<<<start>>>>, visited |-> {start}, enqueued |-> <<start>>,
     done |-> FALSE, ret |-> NoneRet]

\* a search that returned before its loop
Returned(value) ==
    [queue |-> <<>>, visited |-> {}, enqueued |-> <<>>, done |-> TRUE,
     ret |-> value]

\* the last stations of the entries of queue from the k-th on
LastStationsFrom(queue, k) ==
    [j \in 1..(Len(queue) - k + 1) |-> Last(queue[k + j - 1])]

\* one iteration of `while queue:` of bfs_shortest_path, or the
\* `return None` after it
BfsIter(g, goal, st) ==
    IF st.queue = <<>> THEN [st EXCEPT !.done = TRUE, !.ret = NoneRet]
    ELSE LET path == Head(st.queue)
             r == BfsFor(goal, path, NeighborKeys(g, Last(path)), 1,
                         st.visited, Tail(st.queue))
         IN [queue |-> r.queue, visited |-> r.visited,
             enqueued |-> st.enqueued
                            \o LastStationsFrom(r.queue, Len(st.queue)),
             done |-> r.found # <<>>,
             ret |-> IF r.found # <<>> THEN PathRet(r.found) ELSE NoneRet]

StartBfs(start, goal) ==
    /\ call = Idle
    /\ call' = [op |-> "bfs_shortest_path", start |-> start, goal |-> goal,
                max_length |-> 0]
    /\ run' = IF start = goal THEN Returned(PathRet(<<start>>))
              ELSE IF ~InGraph(graph, start) \/ ~InGraph(graph, goal)
              THEN Returned(NoneRet)
              ELSE BfsStart(start)
    /\ UNCHANGED <<graph, ret, nameVars, metroVars>>

BfsStep ==
    /\ call.op = "bfs_shortest_path"
    /\ ~run.done
    /\ run' = BfsIter(graph, call.goal, run)
    /\ UNCHANGED <<graph, call, ret, nameVars, metroVars>>

\* get_connected_component after `queue = deque([start])`
ComponentStart(start) ==
    [queue |-> <<start>>, visited |-> {start}, enqueued |-> <<start>>,
     done |-> FALSE, ret |-> NoneRet]

\* one iteration of `while queue:` of get_connected_component, or the
\* `return visited` after it
ComponentIter(g, st) ==
    IF st.queue = <<>> THEN [st EXCEPT !.done = TRUE]
    ELSE LET r == ComponentFor(NeighborKeys(g, Head(st.queue)), 1, st.visited,
                               Tail(st.queue))
         IN [st EXCEPT !.queue = r.queue, !.visited = r.visited,
                       !.enqueued = @ \o SubSeq(r.queue, Len(st.queue),
                                                Len(r.queue))]

StartComponent(start) ==
    /\ call = Idle
    /\ call' = [op |-> "get_connected_component", start |-> start,
                goal |-> 0, max_length |-> 0]
    /\ run' = IF ~InGraph(graph, start) THEN Returned(NoneRet)
              ELSE ComponentStart(start)
    /\ UNCHANGED <<graph, ret, nameVars, metroVars>>

ComponentStep ==
    /\ call.op = "get_connected_component"
    /\ ~run.done
    /\ run' = ComponentIter(graph, run)
    /\ UNCHANGED <<graph, call, ret, nameVars, metroVars>>

\* find_nearest_common_station after its two queues are made; queue and
\* visited are these of side a
CommonStart(station_a, station_b) ==
    [queue |-> <<station_a>>, visited |-> {station_a},
     enqueued |-> <<station_a>>,
     queue_b |-> <<station_b>>, visited_b |-> {station_b},
     enqueued_b |-> <<station_b>>, done |-> FALSE, ret |-> NoneRet]

\* one iteration of `while queue_a or queue_b:` (a level of side a, then a
\* level of side b), or the `return None` after it
CommonIter(g, st) ==
    IF st.queue = <<>> /\ st.queue_b = <<>>
    THEN [st EXCEPT !.done = TRUE, !.ret = NoneRet]
    ELSE LET ra == SideWhile(g, st.queue, st.visited, st.visited_b, <<>>)
             rb == SideWhile(g, st.queue_b, st.visited_b, ra.mine, <<>>)
         IN IF ra.found # <<>>
            THEN [st EXCEPT !.queue = ra.next, !.visited = ra.mine,
                            !.enqueued = @ \o ra.next,
                            !.done = TRUE, !.ret = StationRet(ra.found[1])]
            ELSE [queue |-> ra.next, visited |-> ra.mine,
                  enqueued |-> st.enqueued \o ra.next,
                  queue_b |-> rb.next, visited_b |-> rb.mine,
                  enqueued_b |-> st.enqueued_b \o rb.next,
                  done |-> rb.found # <<>>,
                  ret |-> IF rb.found # <<>> THEN StationRet(rb.found[1])
                          ELSE NoneRet]

StartCommon(station_a, station_b) ==
    /\ call = Idle
    /\ call' = [op |-> "find_nearest_common_station", start |-> station_a,
                goal |-> station_b, max_length |-> 0]
    /\ run' = IF ~InGraph(graph, station_a) \/ ~InGraph(graph, station_b)
              THEN Returned(NoneRet)
              ELSE CommonStart(station_a, station_b)
    /\ UNCHANGED <<graph, ret, nameVars, metroVars>>

CommonStep ==
    /\ call.op = "find_nearest_common_station"
    /\ ~run.done
    /\ run' = CommonIter(graph, run)
    /\ UNCHANGED <<graph, call, ret, nameVars, metroVars>>

\* a call of the nested dfs that has not returned: i is the neighbour its
\* for loop is at, 0 before the two tests at its head
Frame(node, path, visited) ==
    [node |-> node, path |-> path, visited |-> visited, i |-> 0]

\* get_all_paths_limited at its call dfs(start, [start], visited)
DfsStart(start) ==
    [stack |-> <<Frame(start, <<start>>, {start})>>, paths |-> <<>>,
     done |-> FALSE, ret |-> NoneRet]

\* one step of the innermost dfs call: the tests at its head, one pass of
\* its for loop, or its return; `return paths` when the first call is back
DfsIter(g, goal, max_length, st) ==
    IF st.stack = <<>>
    THEN [st EXCEPT !.done = TRUE, !.ret = PathsRet(st.paths)]
    ELSE LET top == Last(st.stack)
             below == SubSeq(st.stack, 1, Len(st.stack) - 1)
             nbrs == NeighborKeys(g, top.node)
         IN IF top.i = 0
            THEN IF TooLong(top.path, max_length)
                 THEN [st EXCEPT !.stack = below]
                 ELSE IF top.node = goal
                 THEN [st EXCEPT !.stack = below,
                                 !.paths = Append(@, top.path)]
                 ELSE [st EXCEPT !.stack = Append(below, [top EXCEPT !.i = 1])]
            ELSE IF top.i > Len(nbrs)
            THEN [st EXCEPT !.stack = below]
            ELSE IF nbrs[top.i] \notin top.visited
            THEN [st EXCEPT !.stack =
                    Append(Append(below, [top EXCEPT !.i = @ + 1]),
                           Frame(nbrs[top.i], Append(top.path, nbrs[top.i]),
                                 top.visited \cup {nbrs[top.i]}))]
            ELSE [st EXCEPT !.stack = Append(below, [top EXCEPT !.i = @ + 1])]

StartAllPaths(start, goal, max_length) ==
    /\ call = Idle
    /\ call' = [op |-> "get_all_paths_limited", start |-> start,
                goal |-> goal, max_length |-> max_length]
    /\ run' = IF ~InGraph(graph, start) \/ ~InGraph(graph, goal)
              THEN Returned(PathsRet(<<>>))
              ELSE DfsStart(start)
    /\ UNCHANGED <<graph, ret, nameVars, metroVars>>

AllPathsStep ==
    /\ call.op = "get_all_paths_limited"
    /\ ~run.done
    /\ run' = DfsIter(graph, call.goal, call.max_length, run)
    /\ UNCHANGED <<graph, call, ret, nameVars, metroVars>>

\* the caller has taken the result, run.ret
SearchReturn ==
    /\ call # Idle
    /\ run.done
    /\ run' = NotRunning
    /\ call' = Idle
    /\ UNCHANGED <<graph, ret, nameVars, metroVars>>

SearchNext ==
    \/ \E start \in Names, goal \in Names : StartDijkstra(start, goal)
    \/ DijkstraStep
    \/ \E start \in Names, goal \in Names : StartBfs(start, goal)
    \/ BfsStep
    \/ \E start \in Names : StartComponent(start)
    \/ ComponentStep
    \/ \E station_a \in Names, station_b \in Names :
            StartCommon(station_a, station_b)
    \/ CommonStep
    \/ \E start \in Names, goal \in Names :
            StartAllPaths(start, goal, ShortMaxLength)
    \/ AllPathsStep
    \/ SearchReturn

SpecSearch == RouteInit /\ [][SearchNext]_vars

\* the vertices whose distance is recorded in seen
Finalized == DOMAIN run.seen

\* an iteration of the while loop of dijkstra is taken
LoopIteration == call.op = "dijkstra" /\ ~run.done /\ call' = call

\* the entry the iteration pops is one for a finalized vertex
PopsFinalized == run.pq # {} /\ HeapMin(run.pq)[2] \in Finalized

\* C25: during a run of dijkstra the distance of a finalized vertex never
\* changes; a popped entry for a finalized vertex is discarded, with seen and
\* the result left as they are and nothing pushed (the vertex is not expanded
\* again); and no entry is pushed for a vertex that is finalized with a
\* distance not greater than the entry's
C25_FinalizedStaysFinal ==
    [][LoopIteration =>
        /\ \A v \in Finalized :
              v \in DOMAIN run'.seen /\ run'.seen[v] = run.seen[v]
        /\ PopsFinalized =>
              /\ run'.seen = run.seen
              /\ run'.ret = run.ret
              /\ ~run'.done
              /\ run'.pq = run.pq \ {HeapMin(run.pq)}
        /\ \A e \in run'.pq \ run.pq :
              e[2] \notin DOMAIN run'.seen \/ e[1] < run'.seen[e[2]]]_vars

\* a run whose next pop is an entry for a finalized vertex
C25_Witness ==
    /\ call.op = "dijkstra"
    /\ ~run.done
    /\ PopsFinalized
    /\ run.seen[HeapMin(run.pq)[2]] < HeapMin(run.pq)[1]
\* no station is on the path twice
IsSimple(path) == \A i, j \in 1..Len(path) : path[i] = path[j] => i = j

\* the segments of main.find_route are maximal: the next segment has another
\* line, and its first edge is not one of the line of the segment before it
MainSegmentsAreMaximal ==
    (process = "main" /\ route_response.status = 200) =>
        LET segments == route_response.segments
        IN \A k \in 1..(Len(segments) - 1) :
            /\ segments[k].line # segments[k + 1].line
            /\ \A line \in SeqToSet(segments[k].line) :
                  line \notin AdjacentLines(METRO_DATA,
                                            segments[k + 1].stations[1],
                                            segments[k + 1].stations[2])

\* the steps of format_route_details are maximal, on a path that has no
\* station twice (the start of a step is then at one place of the path)
StepsAreMaximal ==
    (process = "app" /\ route_data.kind \in {"route", "steps"}
        /\ IsSimple(route_data.path)) =>
        LET steps == route_data.steps
            path == route_data.path
        IN \A k \in 1..(Len(steps) - 1) :
            LET p == ListIndex(path, steps[k + 1].start)
            IN /\ steps[k].line # steps[k + 1].line
               /\ steps[k].line \notin
                      AdjacentLines(METRO_NETWORKS, path[p + 1], path[p + 2])

\* C26: every segment the segmenter emits is maximal: two consecutive
\* segments never carry the same line, and the first path edge of the
\* following segment is not traversable on the line of the segment before it
\* (its two stations are not adjacent on that line).
C26_SegmentsAreMaximal ==
    /\ MainSegmentsAreMaximal
    /\ StepsAreMaximal
\* POST /route has one answer for the query: the fallback
\* list(set(current_lines) & set(next_lines))[0] leaves no choice
MainSegmentingIsDeterministic ==
    (process = "main" /\ route_response # NoResponse) =>
        main_find_route(METRO_DATA, loader_graph, query.from_station,
                        query.to_station) = {route_response}

\* find_route and format_route_details have one answer for the path:
\* list(common_lines)[0] leaves no choice
StepsAreDeterministic ==
    /\ (process = "app" /\ route_data.kind = "route") =>
          find_route(METRO_GRAPH, STATION_LINE_LOOKUP, route_data.source,
                     route_data.destination) = {route_data}
    /\ (process = "app" /\ route_data.kind = "steps"
            /\ IsSimple(route_data.path)) =>
          \A line_of \in ConnectingLineChoices(STATION_LINE_LOOKUP,
                                               route_data.path) :
              format_route_details(route_data.path, line_of) = route_data.steps

\* C27: the line of a path edge whose stations share several lines is chosen
\* by a deterministic rule: segmenting the same path over the same line data
\* always yields the same segment list (the same lines, boundaries and
\* interchange count), whatever the iteration order of the set of common
\* lines.
C27_SegmentingIsDeterministic ==
    /\ MainSegmentingIsDeterministic
    /\ StepsAreDeterministic
\* C28: on a symmetric graph, for two distinct connected vertices a and b,
\* the station x that find_nearest_common_station(graph, a, b) returns lies on
\* a fewest-hops path between them: the hop distance from a to x plus the hop
\* distance from x to b is the hop distance from a to b.
C28_CommonStationOnShortestPath ==
    (/\ call.op = "find_nearest_common_station"
     /\ Undirected(graph)
     /\ BothInGraph
     /\ call.start # call.goal
     /\ Reachable(graph, call.start, call.goal)) =>
        /\ ~ret.none
        /\ Reachable(graph, call.start, ret.station)
        /\ Reachable(graph, ret.station, call.goal)
        /\ HopDistance(graph, call.start, ret.station)
              + HopDistance(graph, ret.station, call.goal)
           = HopDistance(graph, call.start, call.goal)

\* a station strictly between two stations that are four hops apart
C28_Witness ==
    /\ call.op = "find_nearest_common_station"
    /\ Undirected(graph)
    /\ BothInGraph
    /\ Reachable(graph, call.start, call.goal)
    /\ HopDistance(graph, call.start, call.goal) = 4
    /\ ~ret.none
    /\ ret.station \notin {call.start, call.goal}
\* the four answers to "is goal reachable from start" on the graph g
ReachabilityAnswers(g, start, goal) ==
    <<is_reachable(g, start, goal),
      ~bfs_shortest_path(g, start, goal).none,
      ~dijkstra(g, start, goal).none,
      goal \in get_connected_component(g, start)>>

\* what the query that ran says of "is goal reachable from start"
QueryAnswer ==
    IF call.op = "is_reachable" THEN ret.flag ELSE ~ret.none

\* C29: the reachability answers agree: for every pair of vertices (a, b) of
\* the graph, is_reachable(graph, a, b) is true exactly when
\* bfs_shortest_path(graph, a, b) returns a path, exactly when
\* dijkstra(graph, a, b) returns a result, and exactly when b is in
\* get_connected_component(graph, a).
C29_ReachabilityAnswersAgree ==
    (/\ call.op \in {"is_reachable", "bfs_shortest_path", "dijkstra"}
     /\ BothInGraph) =>
        \A i \in 1..4 :
            ReachabilityAnswers(graph, call.start, call.goal)[i] = QueryAnswer

\* a reachability query answered True for two stations more than one hop
\* apart
C29_Witness ==
    /\ call.op = "is_reachable"
    /\ BothInGraph
    /\ ret.flag
    /\ ~HasEdge(graph, call.start, call.goal)
    /\ call.start # call.goal
\* a search that was called runs on: an iteration of its loop
SearchStep ==
    \/ DijkstraStep
    \/ BfsStep
    \/ ComponentStep
    \/ CommonStep
    \/ AllPathsStep

\* the graphs of the fair runs have at most FairMaxEdges edges
FairMaxEdges == 3

\* the neighbour entries of the dict
RECURSIVE NumEntries(_, _)
NumEntries(g, keys) ==
    IF keys = {} THEN 0
    ELSE LET a == CHOOSE k \in keys : TRUE
         IN Len(g[a]) + NumEntries(g, keys \ {a})

FairInit ==
    /\ RouteInit
    /\ NumEntries(graph, DOMAIN graph) <= 2 * FairMaxEdges

\* the thread of a called search is scheduled again and again
SpecSearchFair == FairInit /\ [][SearchNext]_vars /\ WF_vars(SearchStep)

\* no station was put twice on the queue of a breadth-first search
NoVertexEnqueuedTwice ==
    /\ call.op \in {"bfs_shortest_path", "get_connected_component",
                    "find_nearest_common_station"} =>
          IsSimple(run.enqueued)
    /\ (call.op = "find_nearest_common_station" /\ BothInGraph) =>
          IsSimple(run.enqueued_b)

\* dijkstra has left its loop: the frontier is empty or the destination was
\* popped
FrontierEmptyOrGoalPopped ==
    /\ call.op = "dijkstra"
    /\ run.done
    /\ \/ run.pq = {}
       \/ /\ ~run.ret.none
          /\ Last(run.ret.path) = call.goal
          /\ call.goal \in DOMAIN run.seen

\* C30: on every finite graph with non-negative weights and for every pair
\* of inputs, bfs_shortest_path, dijkstra, get_all_paths_limited,
\* find_nearest_common_station and get_connected_component eventually finish
\* and return; no vertex is enqueued by a breadth-first search more than
\* once, and the frontier of dijkstra eventually empties or the destination
\* is popped.
C30_SearchesTerminate ==
    /\ [](NoVertexEnqueuedTwice)
    /\ (call # Idle) ~> run.done
    /\ (call.op = "dijkstra") ~> FrontierEmptyOrGoalPopped

\* a breadth-first search that has returned from a cycle of three stations,
\* each of them put on the queue once
C30_Witness ==
    /\ call.op = "get_connected_component"
    /\ run.done
    /\ Len(run.enqueued) = 3
    /\ \A a \in run.visited :
          /\ Len(NeighborKeys(graph, a)) = 2
          /\ SeqToSet(NeighborKeys(graph, a)) \subseteq run.visited

============================================================================
